---- MODULE Spec2Model ----
(***************************************************************************)
(* A model of ciderpress/gpaw/fast_atom_utils.py: the PAW CIDER kernel      *)
(* FastPASDWCiderKernel (per-setup initialisation and the three pipeline   *)
(* calls features -> energy -> potential), the choice of Nalpha and of the *)
(* projector shell tables, and the basis-projection routines of            *)
(* PSmoothSetup.                                                           *)
(*                                                                         *)
(* Numerical arrays are abstracted in the kernel specification to the      *)
(* provenance of their content (which density-matrix value and which       *)
(* stored entry they were computed from); the presence and the keys of the *)
(* per-atom dictionaries, the order of the reads and writes and the points *)
(* where an exception leaves a call are those of the source.               *)
(***************************************************************************)
EXTENDS Integers, Sequences, FiniteSets, TLC

\* ------------------------------------------------------------------ bounds
NAtoms == 2

Atoms == 1..NAtoms

\* ------------------------------------------------------- python dictionaries
\* A dict is a function whose domain is its key set.
EmptyDict == [x \in {} |-> 0]

Put(m, a, v) == [x \in (DOMAIN m) \cup {a} |-> IF x = a THEN v ELSE m[x]]

\* An instance attribute that may not exist yet: FastPASDWCiderKernel only
\* annotates fr_asgLq, df_asgLq, vfr_asgLq, vdf_asgLq, c_asiq at class level,
\* so reading one before its first assignment raises AttributeError.
Unset == [set |-> FALSE, m |-> EmptyDict]

NewDict == [set |-> TRUE, m |-> EmptyDict]

\* D_asp: an (insertion-ordered) dict atom -> D_sp, as the sequence of its keys
\* (the loops of the three calls visit the atoms in this order).
DaspInputs ==
    {D \in UNION {[1..n -> Atoms] : n \in 0..NAtoms} :
        \A i, j \in DOMAIN D : i # j => D[i] # D[j]}

Keys(D) == {D[i] : i \in DOMAIN D}

\* An optional argument of the dispatcher (None or a dict with some keys).
None == [given |-> FALSE, keys |-> {}]

\* The per-atom dicts D_asiq and vc_asiq that come with a D_asp: one entry for
\* every atom of D_asp, or the entry of one atom missing.
KeySetsFor(D) == {Keys(D)} \cup {Keys(D) \ {a} : a \in Keys(D)}

OptDictsFor(D) == {None} \cup {[given |-> TRUE, keys |-> K] : K \in KeySetsFor(D)}

\* --------------------------------------------------------------- variables
VARIABLES
    fr_asgLq, df_asgLq, c_asiq, vfr_asgLq, vdf_asgLq,   \* kernel attributes
    setups,      \* setups[a]: the set of attributes attached to the setup of atom a
    cho_fails,   \* environment: which Cholesky factorisation of setup a fails
    last,        \* the last call: what was called, with what, and how it ended
    plan,        \* the kernel's plan: bas_exp_fit (plan.alphas) and lambd
    zsetups,     \* zsetups[a]: Z of a setup and what initialize_more_things built for it
    pin,         \* the fields and scalars handed to the projection routines
    pout,        \* what the projection routines returned for them
    adj,         \* the inputs and results of a forward and an adjoint projection
    shp,         \* array shapes handed to the energy and potential stages, and the outcome
    rad,         \* a CiderRadialExpansion: its calculator's mode, its fields, its last call
    rec,         \* the inputs and the result of the energy stage's reconstruction of ft
    fn,          \* calls of get_cider_functional: arguments and what was built
    dct,         \* a dictionary handed to cider_functional_from_dict, and the outcome
    gpw,         \* the keyword arguments of a CiderGPAW construction, and the outcome
    en,          \* the energy stage on one atom: stored fields, inputs, results of two calls
    kin,         \* a contribs object's _dH_sp and the radial calculator calls made on it
    pot,         \* the potential stage on one atom: stored fields, the caller's vc, results
    cut          \* the fields around the cutoff in the feature and potential stages

KernelVars == <<fr_asgLq, df_asgLq, c_asiq, vfr_asgLq, vdf_asgLq, setups, cho_fails, last>>

SetupVars == <<plan, zsetups>>

ProjVars == <<pin, pout>>

AuxVars == <<adj, shp, rad, rec, fn>>

LateVars == <<dct, gpw, en, kin, pot, cut>>

vars == <<KernelVars, SetupVars, ProjVars, AuxVars, LateVars>>

Kernel ==
    [fr_asgLq |-> fr_asgLq, df_asgLq |-> df_asgLq, c_asiq |-> c_asiq,
     vfr_asgLq |-> vfr_asgLq, vdf_asgLq |-> vdf_asgLq]

SetKernel(k) ==
    /\ fr_asgLq' = k.fr_asgLq
    /\ df_asgLq' = k.df_asgLq
    /\ c_asiq' = k.c_asiq
    /\ vfr_asgLq' = k.vfr_asgLq
    /\ vdf_asgLq' = k.vdf_asgLq

NoArgs == [D_asiq |-> FALSE, df_asgLq |-> FALSE, vc_asiq |-> FALSE]

\* ------------------------------------------------- initialize_more_things
SetupAttrs == {"xc_correction", "nlxc_correction", "cider_contribs", "ps_setup", "pa_setup"}

ChoFailures == {"none", "ps_setup", "pa_setup"}

\* A variant that falls back to a degraded factorisation instead of raising.
InitSetup_fallback(attrs, fails) ==
    IF "cider_contribs" \in attrs
    THEN [attrs |-> attrs, built |-> {}, out |-> "returned"]
    ELSE [attrs |-> attrs \cup SetupAttrs, built |-> SetupAttrs, out |-> "returned"]

\* A variant without the hasattr test: every call rebuilds every setup.
InitSetup_rebuild(attrs, fails) ==
    LET a3 == {"xc_correction", "nlxc_correction", "cider_contribs"}
    IN IF fails = "ps_setup"
       THEN [attrs |-> attrs \cup a3, built |-> a3, out |-> "LinAlgError"]
       ELSE IF fails = "pa_setup"
            THEN [attrs |-> attrs \cup a3 \cup {"ps_setup"},
                  built |-> a3 \cup {"ps_setup"}, out |-> "LinAlgError"]
            ELSE [attrs |-> attrs \cup SetupAttrs, built |-> SetupAttrs, out |-> "returned"]

\* The body of the loop of initialize_more_things for one setup (the set of its
\* attributes): a setup that has cider_contribs is skipped; otherwise the
\* attributes are attached in the order xc_correction, nlxc_correction,
\* cider_contribs, ps_setup, pa_setup, and a failing Cholesky factorisation
\* (cho_factor in PSmoothSetup.initialize_a2g, or in PAugSetup.initialize_g2a)
\* raises out of the call before the attribute it was building is attached.
\* built is the set of attributes this pass constructed and attached.
InitSetup(attrs, fails) ==
    IF "cider_contribs" \in attrs
    THEN [attrs |-> attrs, built |-> {}, out |-> "returned"]
    ELSE LET a3 == {"xc_correction", "nlxc_correction", "cider_contribs"}
         IN IF fails = "ps_setup"
            THEN [attrs |-> attrs \cup a3, built |-> a3, out |-> "LinAlgError"]
            ELSE IF fails = "pa_setup"
                 THEN [attrs |-> attrs \cup a3 \cup {"ps_setup"},
                       built |-> a3 \cup {"ps_setup"}, out |-> "LinAlgError"]
                 ELSE [attrs |-> attrs \cup SetupAttrs, built |-> SetupAttrs,
                       out |-> "returned"]

RECURSIVE InitLoop(_, _, _, _)
\* for setup in setups: ... (the first exception ends the loop and the call);
\* built collects, per setup, what the call constructed.
InitLoop(su, fails, built, a) ==
    IF a > NAtoms
    THEN [setups |-> su, built |-> built, out |-> "returned"]
    ELSE LET r == InitSetup(su[a], fails[a])
             su2 == [su EXCEPT ![a] = r.attrs]
             b2 == built \cup {<<a, x>> : x \in r.built}
         IN IF r.out # "returned"
            THEN [setups |-> su2, built |-> b2, out |-> r.out]
            ELSE InitLoop(su2, fails, b2, a + 1)

\* ------------------------------------------- calculate_paw_cider_features
\* The arrays stored for an atom are abstracted to the stage that wrote them.
FeatVal == "features"

\* The first attribute of the setup that is read and missing, if any.
FeaturesSetupError(attrs) ==
    ~({"ps_setup", "nlxc_correction", "xc_correction", "cider_contribs"} \subseteq attrs)

RECURSIVE FeaturesLoop(_, _, _, _)
\* for a, D_sp in D_asp.items(): ... self.df_asgLq[a] = ...; self.fr_asgLq[a] = ...;
\* self.c_asiq[a] = ...
FeaturesLoop(k, su, D, i) ==
    IF i > Len(D)
    THEN [k |-> k, su |-> su, out |-> "returned",
          ret |-> <<DOMAIN k.c_asiq.m, DOMAIN k.df_asgLq.m>>]
    ELSE LET a == D[i]
         IN IF FeaturesSetupError(su[a])
            THEN [k |-> k, su |-> su, out |-> "AttributeError", ret |-> <<>>]
            ELSE FeaturesLoop(
                    [k EXCEPT !.df_asgLq.m = Put(@, a, FeatVal),
                              !.fr_asgLq.m = Put(@, a, FeatVal),
                              !.c_asiq.m = Put(@, a, FeatVal)],
                    su, D, i + 1)

\* A variant that creates the three dicts only when they do not exist yet, so
\* that entries of an earlier call survive.
features_keep_old(k, su, D) ==
    IF Len(D) = 0
    THEN [k |-> k, su |-> su, out |-> "returned", ret |-> <<{}, {}>>]
    ELSE FeaturesLoop(
            [k EXCEPT !.fr_asgLq.set = TRUE, !.df_asgLq.set = TRUE, !.c_asiq.set = TRUE],
            su, D, 1)

calculate_paw_cider_features(k, su, D) ==
    IF Len(D) = 0
    THEN [k |-> k, su |-> su, out |-> "returned", ret |-> <<{}, {}>>]
    ELSE FeaturesLoop(
            [k EXCEPT !.fr_asgLq = NewDict, !.df_asgLq = NewDict, !.c_asiq = NewDict],
            su, D, 1)

\* --------------------------------------------- calculate_paw_cider_energy
EnergyVal == "energy"

\* A variant that treats a missing attribute or entry of the kernel as empty
\* instead of raising (as a class-level default dict read with .get would).
EnergyAtomError_lenient(k, attrs, D_asiq_keys, a) ==
    IF "pa_setup" \notin attrs THEN "AttributeError"
    ELSE IF a \notin D_asiq_keys THEN "KeyError"
    ELSE IF "xc_correction" \notin attrs THEN "AttributeError"
    ELSE IF "cider_contribs" \notin attrs THEN "AttributeError"
    ELSE "none"

\* What the body of the loop raises for atom a before it stores anything, in
\* the order of its reads: setup.pa_setup, D_asiq[a], setup.xc_correction,
\* self.df_asgLq[a], self.fr_asgLq[a], setup.cider_contribs.
EnergyAtomError(k, attrs, D_asiq_keys, a) ==
    IF "pa_setup" \notin attrs THEN "AttributeError"
    ELSE IF a \notin D_asiq_keys THEN "KeyError"
    ELSE IF "xc_correction" \notin attrs THEN "AttributeError"
    ELSE IF ~k.df_asgLq.set THEN "AttributeError"
    ELSE IF a \notin DOMAIN k.df_asgLq.m THEN "KeyError"
    ELSE IF ~k.fr_asgLq.set THEN "AttributeError"
    ELSE IF a \notin DOMAIN k.fr_asgLq.m THEN "KeyError"
    ELSE IF "cider_contribs" \notin attrs THEN "AttributeError"
    ELSE "none"

RECURSIVE EnergyLoop(_, _, _, _, _, _)
\* loc: the local dicts dvD_asiq, deltaE, deltaV of the call
EnergyLoop(k, su, D, D_asiq_keys, loc, i) ==
    IF i > Len(D)
    THEN [k |-> k, su |-> su, out |-> "returned",
          ret |-> <<loc.dvD_asiq, loc.deltaE, loc.deltaV>>]
    ELSE LET a == D[i]
             err == EnergyAtomError(k, su[a], D_asiq_keys, a)
         IN IF err # "none"
            THEN [k |-> k, su |-> su, out |-> err, ret |-> <<>>]
            ELSE EnergyLoop(
                    [k EXCEPT !.vfr_asgLq.m = Put(@, a, EnergyVal),
                              !.vdf_asgLq.m = Put(@, a, EnergyVal)],
                    su, D, D_asiq_keys,
                    [dvD_asiq |-> loc.dvD_asiq \cup {a},
                     deltaE |-> loc.deltaE \cup {a},
                     deltaV |-> loc.deltaV \cup {a}],
                    i + 1)

\* A variant that clears vfr_asgLq and vdf_asgLq before the test for an empty
\* D_asp (where the source initialises only the locals deltaE and deltaV).
energy_reset_first(k, su, D, D_asiq_keys) ==
    LET k0 == [k EXCEPT !.vfr_asgLq = NewDict, !.vdf_asgLq = NewDict]
    IN IF Len(D) = 0
       THEN [k |-> k0, su |-> su, out |-> "returned", ret |-> <<{}, {}, {}>>]
       ELSE EnergyLoop(k0, su, D, D_asiq_keys,
                       [dvD_asiq |-> {}, deltaE |-> {}, deltaV |-> {}], 1)

calculate_paw_cider_energy(k, su, D, D_asiq_keys) ==
    IF Len(D) = 0
    THEN [k |-> k, su |-> su, out |-> "returned", ret |-> <<{}, {}, {}>>]
    ELSE EnergyLoop(
            [k EXCEPT !.vfr_asgLq = NewDict, !.vdf_asgLq = NewDict],
            su, D, D_asiq_keys,
            [dvD_asiq |-> {}, deltaE |-> {}, deltaV |-> {}], 1)

\* ------------------------------------------ calculate_paw_cider_potential
\* In the order of the reads: setup.ps_setup, setup.xc_correction, vc_asiq[a],
\* self.vdf_asgLq[a], self.vfr_asgLq[a], setup.nlxc_correction,
\* setup.cider_contribs.
PotentialAtomError(k, attrs, vc_asiq_keys, a) ==
    IF "ps_setup" \notin attrs THEN "AttributeError"
    ELSE IF "xc_correction" \notin attrs THEN "AttributeError"
    ELSE IF a \notin vc_asiq_keys THEN "KeyError"
    ELSE IF ~k.vdf_asgLq.set THEN "AttributeError"
    ELSE IF a \notin DOMAIN k.vdf_asgLq.m THEN "KeyError"
    ELSE IF ~k.vfr_asgLq.set THEN "AttributeError"
    ELSE IF a \notin DOMAIN k.vfr_asgLq.m THEN "KeyError"
    ELSE IF ~({"nlxc_correction", "cider_contribs"} \subseteq attrs) THEN "AttributeError"
    ELSE "none"

RECURSIVE PotentialLoop(_, _, _, _, _, _)
\* dH: the keys of the local dict dH_asp; no attribute of the kernel is assigned
PotentialLoop(k, su, D, vc_asiq_keys, dH, i) ==
    IF i > Len(D)
    THEN [k |-> k, su |-> su, out |-> "returned", ret |-> <<dH>>]
    ELSE LET a == D[i]
             err == PotentialAtomError(k, su[a], vc_asiq_keys, a)
         IN IF err # "none"
            THEN [k |-> k, su |-> su, out |-> err, ret |-> <<>>]
            ELSE PotentialLoop(k, su, D, vc_asiq_keys, dH \cup {a}, i + 1)

\* A variant that keeps the solved field of every atom it finishes on the
\* atom's ps_setup.
potential_caches_on_setup(k, su, D, vc_asiq_keys) ==
    IF Len(D) = 0
    THEN [k |-> k, su |-> su, out |-> "returned", ret |-> <<{}>>]
    ELSE LET r == PotentialLoop(k, su, D, vc_asiq_keys, {}, 1)
         IN IF r.out = "returned"
            THEN [r EXCEPT !.su = [a \in Atoms |->
                                     IF a \in Keys(D)
                                     THEN su[a] \cup {"ps_setup.vdy_sqLk"}
                                     ELSE su[a]]]
            ELSE r

calculate_paw_cider_potential(k, su, D, vc_asiq_keys) ==
    IF Len(D) = 0
    THEN [k |-> k, su |-> su, out |-> "returned", ret |-> <<{}>>]
    ELSE PotentialLoop(k, su, D, vc_asiq_keys, {}, 1)

\* ----------------------------------------- calculate_paw_feat_corrections
\* A variant that tests vc_asiq first, so that energy is not run when both
\* D_asiq and vc_asiq are given.
DispatchRoutine_vc_first(D_asiq, df, vc_asiq) ==
    IF vc_asiq.given THEN "potential"
    ELSE IF D_asiq.given
         THEN IF df THEN "energy" ELSE "assert"
         ELSE "features"

\* Which routine the dispatcher runs: "assert" when its assertion fails.
DispatchRoutine(D_asiq, df, vc_asiq) ==
    IF ~D_asiq.given /\ ~vc_asiq.given THEN "features"
    ELSE IF D_asiq.given
         THEN IF df THEN "energy" ELSE "assert"
         ELSE IF vc_asiq.given THEN "potential" ELSE "assert"

\* ran: the routine the call ran ("none" when the assertion failed first)
calculate_paw_feat_corrections(k, su, D, D_asiq, df, vc_asiq) ==
    LET r == DispatchRoutine(D_asiq, df, vc_asiq)
        res == IF r = "features" THEN calculate_paw_cider_features(k, su, D)
               ELSE IF r = "energy" THEN calculate_paw_cider_energy(k, su, D, D_asiq.keys)
               ELSE IF r = "potential"
                    THEN calculate_paw_cider_potential(k, su, D, vc_asiq.keys)
                    ELSE [k |-> k, su |-> su, out |-> "AssertionError", ret |-> <<>>]
    IN [k |-> res.k, su |-> res.su, out |-> res.out, ret |-> res.ret,
        ran |-> IF r = "assert" THEN "none" ELSE r]

\* ------------------------------- initialize_more_things: Nalpha and tables
\* Exponents and Z are integers here, so that the arithmetic is exact; lambd is
\* an integer >= 2.
MaxLambd == 3

ExpPool == {1, 5, 10, 20, 80}

Plans == [bas_exp_fit : (SUBSET ExpPool) \ {{}}, lambd : 2..MaxLambd]

ZVals == {-1, 0, 1, 18, 19, 100, 101, 1000, 1001}

SetMax(S) == CHOOSE x \in S : \A y \in S : y <= x

SetMin(S) == CHOOSE x \in S : \A y \in S : x <= y

RECURSIVE Pow(_, _)
Pow(b, n) == IF n <= 0 THEN 1 ELSE b * Pow(b, n - 1)

RECURSIVE CeilLogFrom(_, _, _, _)
CeilLogFrom(encut, amin, lambd, n) ==
    IF amin * Pow(lambd, n) >= encut THEN n ELSE CeilLogFrom(encut, amin, lambd, n + 1)

\* int(np.ceil(np.log(encut / amin) / np.log(lambd))) for encut >= amin: the
\* least n with amin * lambd^n >= encut.
CeilLog(encut, amin, lambd) == CeilLogFrom(encut, amin, lambd, 0)

\* A variant without the "+ 1" that turns the index of the top exponent into
\* the length of the ladder.
ChooseNalpha_no_plus_one(Z, bas_exp_fit, lambd) ==
    LET encut == Z * Z * 20
        amin == SetMin(bas_exp_fit)
    IN IF encut <= SetMax(bas_exp_fit)
       THEN [Nalpha |-> Cardinality(bas_exp_fit), encut0 |-> SetMax(bas_exp_fit)]
       ELSE LET Nalpha == CeilLog(encut, amin, lambd)
            IN [Nalpha |-> Nalpha, encut0 |-> amin * Pow(lambd, Nalpha - 1)]

\* encut, Nalpha and encut0 of initialize_more_things.  For integers the test
\* encut - 1e-7 <= max(bas_exp_fit) is encut <= max(bas_exp_fit).
ChooseNalpha(Z, bas_exp_fit, lambd) ==
    LET encut == Z * Z * 20
        amin == SetMin(bas_exp_fit)
    IN IF encut <= SetMax(bas_exp_fit)
       THEN [Nalpha |-> Cardinality(bas_exp_fit), encut0 |-> SetMax(bas_exp_fit)]
       ELSE LET Nalpha == CeilLog(encut, amin, lambd) + 1
            IN [Nalpha |-> Nalpha, encut0 |-> amin * Pow(lambd, Nalpha - 1)]

\* The two assertions "Math went wrong" of the else branch (for integers
\* encut0 >= encut - 1e-6 is encut0 >= encut).
NalphaAssertionsHold(Z, bas_exp_fit, lambd, c) ==
    LET encut == Z * Z * 20
    IN encut <= SetMax(bas_exp_fit)
       \/ (c.encut0 >= encut /\ c.encut0 < encut * lambd)

\* lmlist_i and jlist_i: for j, n in enumerate(nlist_j): for m in range(2l+1):
\* lmlist_i.append(l*l + m); jlist_i.append(j).  L and j are 0-based as in the
\* source; the sequences are indexed from 1.
RECURSIVE ProjectorIndex(_, _)
ProjectorIndex(llist_j, j) ==
    IF j > Len(llist_j)
    THEN <<>>
    ELSE LET l == llist_j[j]
         IN [m \in 1..(2 * l + 1) |-> [lm |-> l * l + m - 1, j |-> j - 1]]
            \o ProjectorIndex(llist_j, j + 1)

ShellTable(nlist_j, llist_j, nbas_lst) ==
    LET pi == ProjectorIndex(llist_j, 1)
    IN [nlist_j |-> nlist_j, llist_j |-> llist_j, nbas_lst |-> nbas_lst,
        lmlist_i |-> [i \in DOMAIN pi |-> pi[i].lm],
        jlist_i |-> [i \in DOMAIN pi |-> pi[i].j]]

TableZ1000 ==
    ShellTable(<<0, 2, 4, 6, 8, 1, 3, 5, 7, 2, 4, 6, 8, 3, 5, 7, 4, 6, 8>>,
               <<0, 0, 0, 0, 0, 1, 1, 1, 1, 2, 2, 2, 2, 3, 3, 3, 4, 4, 4>>,
               <<5, 4, 4, 3, 3>>)

TableLarge ==
    ShellTable(<<0, 2, 4, 6, 1, 3, 5, 2, 4, 6, 3, 5, 4, 6>>,
               <<0, 0, 0, 0, 1, 1, 1, 2, 2, 2, 3, 3, 4, 4>>,
               <<4, 3, 3, 2, 2>>)

TableSmall ==
    ShellTable(<<0, 2, 4, 1, 3, 2, 4, 3, 4>>,
               <<0, 0, 0, 1, 1, 2, 2, 3, 4>>,
               <<3, 2, 2, 1, 1>>)

TableGhost ==
    ShellTable(<<0, 2, 1, 2>>, <<0, 0, 1, 2>>, <<2, 1, 1>>)

NoTable == ShellTable(<<>>, <<>>, <<>>)

\* The shell table of PAugSetup.from_setup.
PAugSetup_from_setup(Z) ==
    IF Z > 1000 THEN TableZ1000
    ELSE IF Z > 18 THEN TableLarge
    ELSE IF Z > 0 THEN TableSmall
    ELSE TableGhost

\* A variant with the thresholds of PAugSetup.from_setup copied over.
PSmoothSetup_from_setup_aug_ranges(Z) ==
    IF Z > 1000 THEN TableLarge
    ELSE IF Z > 18 THEN TableSmall
    ELSE TableGhost

\* The shell table of PSmoothSetup.from_setup.
PSmoothSetup_from_setup(Z) ==
    IF Z > 100 THEN TableLarge
    ELSE IF Z > 0 THEN TableSmall
    ELSE TableGhost

NewZSetup(Z) ==
    [Z |-> Z, out |-> "none", Nalpha |-> 0, encut0 |-> 0,
     ps_setup |-> NoTable, pa_setup |-> NoTable]

\* The body of the loop of initialize_more_things for one setup, with what it
\* computes: Nalpha and encut0, the assertions on them, ps_setup and pa_setup.
\* The constructions outside this file (DiffPAWXCCorrection, SBTGridContainer,
\* PAWCiderContribs.from_plan) and the factorisations are taken to succeed.
InitZSetup(zs, pl) ==
    IF zs.out = "returned"
    THEN zs
    ELSE LET c == ChooseNalpha(zs.Z, pl.bas_exp_fit, pl.lambd)
         IN IF ~NalphaAssertionsHold(zs.Z, pl.bas_exp_fit, pl.lambd, c)
            THEN [zs EXCEPT !.out = "AssertionError", !.Nalpha = c.Nalpha,
                            !.encut0 = c.encut0]
            ELSE [zs EXCEPT !.out = "returned", !.Nalpha = c.Nalpha,
                            !.encut0 = c.encut0,
                            !.ps_setup = PSmoothSetup_from_setup(zs.Z),
                            !.pa_setup = PAugSetup_from_setup(zs.Z)]

RECURSIVE InitZLoop(_, _, _)
InitZLoop(zss, pl, a) ==
    IF a > NAtoms
    THEN zss
    ELSE LET r == InitZSetup(zss[a], pl)
             zss2 == [zss EXCEPT ![a] = r]
         IN IF r.out # "returned" THEN zss2 ELSE InitZLoop(zss2, pl, a + 1)

DefaultPlan == [bas_exp_fit |-> {1}, lambd |-> 2]

InitSetupVarsIdle ==
    /\ plan = DefaultPlan
    /\ zsetups = [a \in Atoms |-> NewZSetup(0)]

\* ------------------------------------------- PSmoothSetup: basis projection
\* Arrays are functions of their (0-based) indices with integer entries, so
\* that the arithmetic is exact.  s: spin, b: feature column, L: combined
\* (l, m) index, g: grid point, p: delta function, a: alpha, j: shell,
\* i: projector.
NG == 2

LmaxF == 25

Spins == {0}

Bs == {0}

As == {0}

Ps == {0}

Ls == 0..(LmaxF - 1)

Gs == 0..(NG - 1)

FieldIdx == Spins \X Bs \X Ls \X Gs

DfIdx == Spins \X Ls \X Ps \X Bs

RECURSIVE SumF(_)
\* The sum of the values of a function with a finite domain.
SumF(f) ==
    IF DOMAIN f = {}
    THEN 0
    ELSE LET x == CHOOSE x \in DOMAIN f : TRUE
         IN f[x] + SumF([y \in (DOMAIN f) \ {x} |-> f[y]])

\* l of the combined index L = l*l + m, 0 <= m <= 2l.
lOf(L) == CHOOSE l \in 0..L : l * l <= L /\ L < (l + 1) * (l + 1)

\* self.lmax = np.max(llist_j)
LmaxOf(t) == SetMax({t.llist_j[j] : j \in DOMAIN t.llist_j})

\* nbas_loc = np.append([0], np.cumsum(nbas_lst)): the shells of channel l are
\* nbas_loc[l] .. nbas_loc[l+1] - 1.
NbasLoc(t, l) == SumF([k \in 1..l |-> t.nbas_lst[k]])

NShellsOf(t, l) == NbasLoc(t, l + 1) - NbasLoc(t, l)

\* ilist = self.lmlist_i == L: the projectors of L, in increasing order of i
\* (0-based projector indices).
ProjectorsOf(t, L) == {i \in 0..(Len(t.lmlist_i) - 1) : t.lmlist_i[i + 1] = L}

RankIn(S, i) == Cardinality({k \in S : k < i})

\* The data of a setup that initialize_a2g computes, as fixed integer arrays.
delta_lpk(l, p, g) == l + g + 1

deltasl_lpg(l, p, g) == 2 * l + g + 1

phi_jabk(j, a, b, g) == j + 2 * g + 1

phi_sr_jabg(j, a, b, g) == 2 * j + g + 1

w_b(b) == 1

get_dvk(g) == g + 1

\* pinv_l_ii[l] = cho_solve(p_cl_l_ii[l], identity): the inverse of P_l, a
\* symmetric positive definite matrix.
pinv_l_ii(l, r, c) == IF r = c THEN l + 2 ELSE 1

\* The L visited by "for l in range(self.lmax + 1): for L in range(l*l, l*l + 2*l + 1)".
LoopLs(t) == {L \in Ls : lOf(L) <= LmaxOf(t)}

\* get_b1_pb_recip
get_b1_pb_recip(y, s, L, l, p, b) ==
    SumF([g \in Gs |-> y[<<s, b, L, g>>] * delta_lpk(l, p, g) * get_dvk(g)]) * w_b(b)

\* get_b2_ja_recip (jj: the shell's position in channel l)
get_b2_ja_recip(t, y, s, L, l, jj, a) ==
    SumF([bg \in Bs \X Gs |->
            y[<<s, bg[1], L, bg[2]>>] * phi_jabk(NbasLoc(t, l) + jj, a, bg[1], bg[2])
            * w_b(bg[1]) * get_dvk(bg[2])])

NP == Cardinality(Ps)

NB == Cardinality(Bs)

NA == Cardinality(As)

\* b = cat_b_vecs(b1, b2): b1 flattened (p, b) row-major, then b2 (j, a).
BVec(t, y, s, L) ==
    LET l == lOf(L)
        N1 == NP * NB
        n == N1 + NShellsOf(t, l) * NA
    IN [r \in 1..n |->
          IF r <= N1
          THEN get_b1_pb_recip(y, s, L, l, (r - 1) \div NB, (r - 1) % NB)
          ELSE get_b2_ja_recip(t, y, s, L, l, (r - N1 - 1) \div NA, (r - N1 - 1) % NA)]

\* A variant that keeps only non-negative solution coefficients.
cho_solve_clamped(l, b) ==
    [r \in DOMAIN b |->
        LET v == SumF([c \in DOMAIN b |-> pinv_l_ii(l, r, c) * b[c]])
        IN IF v < 0 THEN 0 ELSE v]

\* x = cho_solve(self.p_cl_l_ii[l], b)
cho_solve(l, b) ==
    [r \in DOMAIN b |-> SumF([c \in DOMAIN b |-> pinv_l_ii(l, r, c) * b[c]])]

\* get_c_and_df(y_sbLg, realspace=False): c_sib and df_sLpb start as zeros and
\* receive, for every visited L, the two parts of the solution x.
get_c_and_df(t, y) ==
    LET visited == LoopLs(t)
        N1 == NP * NB
        x == [sL \in Spins \X visited |-> cho_solve(lOf(sL[2]), BVec(t, y, sL[1], sL[2]))]
        ni == Len(t.lmlist_i)
    IN [c |-> [sia \in Spins \X (0..(ni - 1)) \X As |->
                  LET L == t.lmlist_i[sia[2] + 1]
                  IN IF L \in visited
                     THEN x[<<sia[1], L>>][N1 + RankIn(ProjectorsOf(t, L), sia[2]) * NA
                                           + sia[3] + 1]
                     ELSE 0],
        df |-> [k \in DfIdx |->
                  IF k[2] \in visited
                  THEN x[<<k[1], k[2]>>][k[3] * NB + k[4] + 1]
                  ELSE 0]]

\* get_f_realspace_contribs(c_sib, sl=True); its L axis has the fixed length 25.
get_f_realspace_contribs(t, c) ==
    [k \in FieldIdx |->
        SumF([ia \in ProjectorsOf(t, k[3]) \X As |->
                phi_sr_jabg(t.jlist_i[ia[1] + 1], ia[2], k[2], k[4]) * c[<<k[1], ia[1], ia[2]>>]])]

\* get_df_realspace_contribs(df_sLpb, sl=True)
get_df_realspace_contribs(t, df) ==
    LET visited == LoopLs(t)
    IN [k \in FieldIdx |->
        IF k[3] \in visited
        THEN SumF([p \in Ps |-> df[<<k[1], k[3], p, k[2]>>] * deltasl_lpg(lOf(k[3]), p, k[4])])
        ELSE 0]

\* A variant that integrates every L of the field, whatever its l.
get_df_only_every_L(t, y) ==
    [k \in DfIdx |->
        SumF([g \in Gs |->
                y[<<k[1], k[4], k[2], g>>] * delta_lpk(lOf(k[2]), k[3], g) * get_dvk(g)])]

\* get_df_only(y_sbLg, rgd, sl=False, realspace=False)
get_df_only(t, y) ==
    LET visited == LoopLs(t)
    IN [k \in DfIdx |->
        IF k[2] \in visited
        THEN SumF([g \in Gs |->
                     y[<<k[1], k[4], k[2], g>>] * delta_lpk(lOf(k[2]), k[3], g) * get_dvk(g)])
        ELSE 0]

\* Input fields: zero except at one entry, on a few L of every channel.
LSupport == {0, 3, 8, 9, 24}

FieldVals == {-1, 1}

ZeroField == [k \in FieldIdx |-> 0]

Fields1 ==
    {ZeroField}
    \cup {[k \in FieldIdx |-> IF k = <<0, 0, L, g>> THEN v ELSE 0] :
            L \in LSupport, g \in Gs, v \in FieldVals}

Scalars == {-1, 2}

\* a*x + b*y
Combine(a, x, b, y) == [k \in FieldIdx |-> a * x[k] + b * y[k]]

\* The setup whose routines are called: the one built for a ghost atom (Z = 0),
\* the only table with lmax < 4.
ProjSetup == PSmoothSetup_from_setup(0)

ZeroCdf ==
    [c |-> [sia \in Spins \X (0..(Len(ProjSetup.lmlist_i) - 1)) \X As |-> 0],
     df |-> [k \in DfIdx |-> 0]]

NoOutput ==
    [done |-> {}, rx |-> ZeroCdf, ry |-> ZeroCdf, rxy |-> ZeroCdf,
     f |-> ZeroField, dfreal |-> ZeroField, dfonly |-> [k \in DfIdx |-> 0]]

InitProjVarsIdle ==
    /\ pin = [x |-> ZeroField, y |-> ZeroField, a |-> 0, b |-> 0]
    /\ pout = NoOutput

\* ------------------------------------------ PSmoothSetup: adjoint projection
\* x = cat_b_vecs(vdf_sLpb[s, L].flatten(), vc_sib[s, ilist, :].flatten())
XVec(t, vc, vdf, s, L) ==
    LET l == lOf(L)
        N1 == NP * NB
        n == N1 + NShellsOf(t, l) * NA
        proj == ProjectorsOf(t, L)
    IN [r \in 1..n |->
          IF r <= N1
          THEN vdf[<<s, L, (r - 1) \div NB, (r - 1) % NB>>]
          ELSE LET i == CHOOSE i \in proj : RankIn(proj, i) = (r - N1 - 1) \div NA
               IN vc[<<s, i, (r - N1 - 1) % NA>>]]

\* get_vb1_pb_recip(b[:N1].reshape(NP, nb), l) at [b, g]
get_vb1_pb_recip(bsol, l, b, g) ==
    SumF([p \in Ps |-> bsol[p * NB + b + 1] * delta_lpk(l, p, g)]) * w_b(b)

\* get_vb2_ja_recip(b[N1:].reshape(-1, Nalpha_sm), l) at [b, g]
get_vb2_ja_recip(t, bsol, l, b, g) ==
    SumF([ja \in (0..(NShellsOf(t, l) - 1)) \X As |->
            bsol[NP * NB + ja[1] * NA + ja[2] + 1]
            * phi_jabk(NbasLoc(t, l) + ja[1], ja[2], b, g)]) * w_b(b)

\* A variant that applies the k-space weight itself.
get_v_from_c_and_df_weighted(t, vc, vdf) ==
    LET visited == LoopLs(t)
        bsol == [sL \in Spins \X visited |->
                    cho_solve(lOf(sL[2]), XVec(t, vc, vdf, sL[1], sL[2]))]
    IN [k \in FieldIdx |->
          IF k[3] \in visited
          THEN (get_vb1_pb_recip(bsol[<<k[1], k[3]>>], lOf(k[3]), k[2], k[4])
                + get_vb2_ja_recip(t, bsol[<<k[1], k[3]>>], lOf(k[3]), k[2], k[4]))
               * get_dvk(k[4])
          ELSE 0]

\* get_v_from_c_and_df(vc_sib, vdf_sLpb, realspace=False): vy_sbLg starts as
\* zeros and receives, for every visited L, the two parts of
\* b = cho_solve(self.p_cl_l_ii[l], x).
get_v_from_c_and_df(t, vc, vdf) ==
    LET visited == LoopLs(t)
        bsol == [sL \in Spins \X visited |->
                    cho_solve(lOf(sL[2]), XVec(t, vc, vdf, sL[1], sL[2]))]
    IN [k \in FieldIdx |->
          IF k[3] \in visited
          THEN get_vb1_pb_recip(bsol[<<k[1], k[3]>>], lOf(k[3]), k[2], k[4])
               + get_vb2_ja_recip(t, bsol[<<k[1], k[3]>>], lOf(k[3]), k[2], k[4])
          ELSE 0]

CIdx == Spins \X (0..(Len(ProjSetup.lmlist_i) - 1)) \X As

\* Inputs of the adjoint: zero except at one entry.
VcInputs ==
    {[k \in CIdx |-> 0]}
    \cup {[k \in CIdx |-> IF k = <<0, i, 0>> THEN v ELSE 0] :
            i \in 0..(Len(ProjSetup.lmlist_i) - 1), v \in FieldVals}

VdfInputs ==
    {[k \in DfIdx |-> 0]}
    \cup {[k \in DfIdx |-> IF k = <<0, L, 0, 0>> THEN v ELSE 0] :
            L \in LSupport, v \in FieldVals}

InitLateVarsIdle ==
    /\ dct = [done |-> FALSE]
    /\ gpw = [done |-> FALSE]
    /\ en = [done |-> FALSE]
    /\ kin = [done |-> FALSE]
    /\ pot = [done |-> FALSE]
    /\ cut = [done |-> FALSE]

InitAuxVarsIdle ==
    /\ adj = [done |-> FALSE]
    /\ shp = [done |-> FALSE]
    /\ rad = [stage |-> "idle"]
    /\ rec = [done |-> FALSE]
    /\ fn = [done |-> FALSE]
    /\ InitLateVarsIdle

\* ----------------------------------- array shapes in energy and potential
\* The arrays of one atom reduced to their shapes.  n0: D_asp[a0].shape[0] of
\* the first atom; S: the spin count of the atom (of its D_sp and of the arrays
\* stored for it); Nalpha_sm <= Q: the projected and the total feature columns
\* of fr_asgLq[a]; ni: psetup.ni; (ds, di, dq): D_asiq[a].shape;
\* (vs, vi, vq): vc_asiq[a].shape.
MaxCols == 3

Min(a, b) == IF a < b THEN a ELSE b

\* numpy: "target[...] = source" and "target += source" need every axis of the
\* source to equal that of the target or to be 1.
BroadcastsInto(src, dst) ==
    /\ Len(src) = Len(dst)
    /\ \A k \in DOMAIN src : src[k] = dst[k] \/ src[k] = 1

\* numpy: a binary operation needs every pair of axes equal or one of them 1.
Broadcastable(x, y) ==
    /\ Len(x) = Len(y)
    /\ \A k \in DOMAIN x : x[k] = y[k] \/ x[k] = 1 \/ y[k] = 1

BroadcastShape(x, y) == [k \in DOMAIN x |-> IF x[k] = 1 THEN y[k] ELSE x[k]]

\* The body of the loop of calculate_paw_cider_energy for one atom:
\* Nalpha_sm = D_asiq[a].shape[-1] (985); fr_sgLq[:, :, L, :Nalpha_sm] is a
\* slice, which numpy cuts at the length Q of the axis (994); the loop over
\* range(ni) and range(nspin) indexes ft_sgLq[s], D_asiq[a][s, i] and
\* Dref_sq[s] (996-999); dvD_asiq[a][:, i] = dvD_sq (1018-1029).
\* calculate_cider_paw_correction (1010) is taken to return arrays of the
\* shape of ft_sgLq.
EnergyShapes(n0, S, Q, ni, ds, di, dq) ==
    LET q2 == Min(dq, Q)
    IN IF n0 > S \/ n0 > ds \/ ni > di
       THEN "IndexError"
       ELSE IF ~Broadcastable(<<dq>>, <<q2>>)
            THEN "ValueError"
            ELSE IF ~BroadcastsInto(BroadcastShape(<<dq>>, <<q2>>), <<q2>>)
                 THEN "ValueError"
                 ELSE IF ~BroadcastsInto(<<S, q2>>, <<n0, dq>>)
                      THEN "ValueError"
                      ELSE "returned"

\* The body of the loop of calculate_paw_cider_potential for one atom:
\* vc_siq += get_vf_realspace_contribs(...), of shape (S, ni, Nalpha_sm) (1079);
\* get_v_from_c_and_df(vc_siq, vdf_sLpq[..., :Nalpha_sm]) takes nspin from
\* vdf, indexes vc_sib[s, ilist, :] with a mask of length ni and solves with
\* P_l, of size NP*Nalpha_sm + nj*Nalpha_sm (1085, 1504-1514).  The first
\* atom's spin count is only used in the assertion of line 1056.
PotentialShapes(n0, S, Nalpha_sm, ni, vs, vi, vq) ==
    IF ~BroadcastsInto(<<S, ni, Nalpha_sm>>, <<vs, vi, vq>>)
    THEN "ValueError"
    ELSE IF vi # ni
         THEN "IndexError"
         ELSE IF vq # Nalpha_sm
              THEN "ValueError"
              ELSE "returned"

SpinCounts == {1, 2}

NiShapes == Len(TableGhost.lmlist_i)

ShapeInputs ==
    {r \in [n0 : SpinCounts, S : SpinCounts, Nalpha_sm : 1..MaxCols, Q : 1..MaxCols,
            ni : {NiShapes}, xs : SpinCounts, xi : {NiShapes - 1, NiShapes, NiShapes + 1},
            xq : 1..(MaxCols + 1)] :
        r.Nalpha_sm <= r.Q}

\* ---------------------------------------------------------------- actions
\* ---------------------------------------------------- CiderRadialExpansion
\* The radial points of the fields ft_srLq and df_srLq, and their values.
RadIdx == 1 .. NG

RadVals == {-1, 0, 2}

RadFields == [RadIdx -> RadVals]

\* The mode strings of the three radial calculators, and one that is none of them.
RadModes == {"feature", "energy", "potential"}

OtherModes == {"other"}

\* CiderRadialExpansion.__init__: the assertion on rcalc.mode.
CiderRadialExpansion_init(mode) ==
    IF mode \in {"feature", "energy", "potential"}
    THEN "constructed"
    ELSE "AssertionError"

\* numpy's elementwise sum of two arrays of one shape
AddFields(x, y) == [i \in DOMAIN x |-> x[i] + y[i]]

\* A variant that adds the difference field on both branches.
CiderRadialExpansion_call_both(mode, ft_srLq, df_srLq, ae) ==
    IF mode = "feature"
    THEN [handed |-> FALSE, f_srLq |-> <<>>]
    ELSE [handed |-> TRUE, f_srLq |-> AddFields(ft_srLq, df_srLq)]

\* CiderRadialExpansion.__call__, as far as the field handed to the radial
\* calculator goes: feature mode hands none; energy mode and the remaining
\* (potential) mode hand f_srLq = ft_srLq + df_srLq if ae else ft_srLq.
CiderRadialExpansion_call(mode, ft_srLq, df_srLq, ae) ==
    IF mode = "feature"
    THEN [handed |-> FALSE, f_srLq |-> <<>>]
    ELSE IF mode = "energy"
         THEN [handed |-> TRUE,
               f_srLq |-> IF ae THEN AddFields(ft_srLq, df_srLq) ELSE ft_srLq]
         ELSE [handed |-> TRUE,
               f_srLq |-> IF ae THEN AddFields(ft_srLq, df_srLq) ELSE ft_srLq]

\* ------------------------------------- calculate_paw_cider_energy: ft_sgLq
\* The reconstruction of the feature field of one atom in the energy stage.
\* The atom's pa_setup is the table of PAugSetup.from_setup for Z = 0: two
\* projectors at L = 0, one at each L in 1..8, none beyond.  The radial
\* functions and the quadrature weights are small integer stand-ins.
NQ == 2

RecL == 10

RecSetup == PAugSetup_from_setup(0)

Qs == 0 .. (NQ - 1)

RecLs == 0 .. (RecL - 1)

RecIdx == Spins \X Gs \X RecLs \X Qs

\* self.nlist_i = self.nlist_j[jlist_i]
nlist_i(pa, i) == pa.nlist_j[pa.jlist_i[i + 1] + 1]

pfuncs_ng(n, g) == n + g + 1

ffuncs_jg(j, g) == 2 * j - g + 1

get_dv(g) == g + 2

\* Dref_sq = (psetup.pfuncs_ng[n] * dv_g).dot(fr_sgLq[:, :, L, :Nalpha_sm])
Dref_sq(pa, fr, i, s, q) ==
    LET L == pa.lmlist_i[i + 1]
        n == nlist_i(pa, i)
    IN SumF([g \in Gs |-> pfuncs_ng(n, g) * get_dv(g) * fr[<<s, g, L, q>>]])

\* A variant whose correction is the supplied projection alone.
ProjectorStep_no_ref(pa, D, fr, Nalpha_sm, ft, i) ==
    LET L == pa.lmlist_i[i + 1]
        j == pa.jlist_i[i + 1]
    IN [k \in RecIdx |->
          IF k[3] = L /\ k[4] < Nalpha_sm
          THEN ft[k] + D[<<k[1], i, k[4]>>] * ffuncs_jg(j, k[2])
          ELSE ft[k]]

\* One pass of the loop over the projectors (lines 991-999):
\* ft_sgLq[s, :, L, :Nalpha_sm] += (D_asiq[a][s, i] - Dref_sq[s])
\*                                 * psetup.ffuncs_jg[j][:, None]
ProjectorStep(pa, D, fr, Nalpha_sm, ft, i) ==
    LET L == pa.lmlist_i[i + 1]
        j == pa.jlist_i[i + 1]
    IN [k \in RecIdx |->
          IF k[3] = L /\ k[4] < Nalpha_sm
          THEN ft[k] + (D[<<k[1], i, k[4]>>] - Dref_sq(pa, fr, i, k[1], k[4]))
                       * ffuncs_jg(j, k[2])
          ELSE ft[k]]

RECURSIVE ProjectorLoop(_, _, _, _, _, _)
\* for i in range(ni): ...
ProjectorLoop(pa, D, fr, Nalpha_sm, ft, i) ==
    IF i >= Len(pa.lmlist_i)
    THEN ft
    ELSE ProjectorLoop(pa, D, fr, Nalpha_sm,
                       ProjectorStep(pa, D, fr, Nalpha_sm, ft, i), i + 1)

\* ft_sgLq = np.zeros_like(df_sgLq); the loop; ft_sgLq[:] += fr_sgLq
energy_ft_sgLq(pa, D, fr, Nalpha_sm) ==
    LET ft == ProjectorLoop(pa, D, fr, Nalpha_sm, [k \in RecIdx |-> 0], 0)
    IN [k \in RecIdx |-> ft[k] + fr[k]]

\* The arrays D_asiq[a] of shape (nspin, ni, Nalpha_sm) and fr_asgLq[a].
DIdx(pa, Nalpha_sm) == Spins \X (0 .. (Len(pa.lmlist_i) - 1)) \X (0 .. (Nalpha_sm - 1))

\* The projections of fr itself onto the projectors.
SelfProjections(pa, fr, Nalpha_sm) ==
    [k \in DIdx(pa, Nalpha_sm) |-> Dref_sq(pa, fr, k[2], k[1], k[3])]

RecFields ==
    {[k \in RecIdx |-> x * (k[2] + 1) + y * k[3] + z * k[4]] :
        x \in {-1, 1}, y \in {0, 1}, z \in {-1, 2}}

RecProjections(pa, fr, Nalpha_sm) ==
    {SelfProjections(pa, fr, Nalpha_sm)}
    \cup {[k \in DIdx(pa, Nalpha_sm) |-> x + y * k[2] + z * k[3]] :
            x \in {0, 1}, y \in {-1, 1}, z \in {0, 3}}

\* --------------------------------------------------- get_cider_functional
\* An ML functional as far as get_cider_functional reads it: the level of its
\* semilocal settings and whether its nonlocal-feature settings are empty.
MLFuncs == [level : {"MGGA", "GGA"}, is_empty : BOOLEAN]

\* The mixing parameter in percent, with the default kernels.
OuterArgs ==
    [xmix : {100, 25}, xkernel : {"GGA_X_PBE"}, ckernel : {"GGA_C_PBE"},
     force_nonlocal : BOOLEAN]

\* The keyword arguments the claims call settings; lambd is in tenths and
\* Nalpha = 0 stands for None.
InnerArgs ==
    [use_paw : BOOLEAN, fast : BOOLEAN, pasdw_ovlp_fit : BOOLEAN,
     pasdw_store_funcs : BOOLEAN, Nalpha : {0, 8}, qmax : {300, 100},
     lambd : {18, 20}]

\* A variant that looks at fast only without PAW.
NonlocalClass_paw_never_fast(desc_version, use_paw, fast) ==
    LET sl == IF desc_version = "b" THEN "MGGA" ELSE "GGA"
    IN IF use_paw
       THEN "Cider" \o sl \o "PASDW"
       ELSE IF fast
            THEN "fast_paw.Cider" \o sl
            ELSE "Cider" \o sl

\* The class chosen for a functional with nonlocal features (lines 156-163
\* for version b, 171-178 for version d).
NonlocalClass(desc_version, use_paw, fast) ==
    IF desc_version = "b"
    THEN IF use_paw /\ fast THEN "fast_paw.CiderMGGAPASDW"
         ELSE IF use_paw THEN "CiderMGGAPASDW"
         ELSE IF fast THEN "fast_paw.CiderMGGA"
         ELSE "CiderMGGA"
    ELSE IF use_paw /\ fast THEN "fast_paw.CiderGGAPASDW"
         ELSE IF use_paw THEN "CiderGGAPASDW"
         ELSE IF fast THEN "fast_paw.CiderGGA"
         ELSE "CiderGGA"

\* The keyword arguments of the constructor call (lines 183-193).
ConstructorKwargs(i) ==
    IF i.use_paw
    THEN [Nalpha |-> i.Nalpha, lambd |-> i.lambd, encut |-> i.qmax,
          pasdw_ovlp_fit |-> i.pasdw_ovlp_fit,
          pasdw_store_funcs |-> i.pasdw_store_funcs]
    ELSE [Nalpha |-> i.Nalpha, lambd |-> i.lambd, encut |-> i.qmax]

\* The kernel object built from (mlfunc, xmix, xkernel, ckernel); building it
\* leaves desc_version on the functional.
HybridKernel(cls, mlfunc, desc_version, o) ==
    [cls |-> cls, level |-> mlfunc.level, is_empty |-> mlfunc.is_empty,
     desc_version |-> desc_version, xmix |-> o.xmix, xkernel |-> o.xkernel,
     ckernel |-> o.ckernel]

\* A variant that takes the semilocal exit only without PAW.
get_cider_functional_sl_without_paw(mlfunc, o, i) ==
    LET desc_version == IF mlfunc.level = "MGGA" THEN "b" ELSE "d"
        sl == IF desc_version = "b" THEN "MGGA" ELSE "GGA"
    IN IF mlfunc.is_empty /\ ~o.force_nonlocal /\ ~i.use_paw
       THEN [cls |-> "SLCider" \o sl,
             kernel |-> HybridKernel("SLCider" \o sl \o "HybridWrapper", mlfunc,
                                     desc_version, o),
             kwargs |-> <<>>]
       ELSE [cls |-> NonlocalClass(desc_version, i.use_paw, i.fast),
             kernel |-> HybridKernel("Cider" \o sl \o "HybridKernel", mlfunc,
                                     desc_version, o),
             kwargs |-> ConstructorKwargs(i)]

\* get_cider_functional after load_cider_model: the object it returns, as its
\* class, the kernel it wraps and the keyword arguments it was built with.
get_cider_functional(mlfunc, o, i) ==
    LET desc_version == IF mlfunc.level = "MGGA" THEN "b" ELSE "d"
    IN IF desc_version = "b"
       THEN IF mlfunc.is_empty /\ ~o.force_nonlocal
            THEN [cls |-> "SLCiderMGGA",
                  kernel |-> HybridKernel("SLCiderMGGAHybridWrapper", mlfunc,
                                          desc_version, o),
                  kwargs |-> <<>>]
            ELSE [cls |-> NonlocalClass(desc_version, i.use_paw, i.fast),
                  kernel |-> HybridKernel("CiderMGGAHybridKernel", mlfunc,
                                          desc_version, o),
                  kwargs |-> ConstructorKwargs(i)]
       ELSE IF mlfunc.is_empty /\ ~o.force_nonlocal
            THEN [cls |-> "SLCiderGGA",
                  kernel |-> HybridKernel("SLCiderGGAHybridWrapper", mlfunc,
                                          desc_version, o),
                  kwargs |-> <<>>]
            ELSE [cls |-> NonlocalClass(desc_version, i.use_paw, i.fast),
                  kernel |-> HybridKernel("CiderGGAHybridKernel", mlfunc,
                                          desc_version, o),
                  kwargs |-> ConstructorKwargs(i)]

\* ---------------------------------------------- cider_functional_from_dict
\* A Python dict is a function on its keys.
DictPop(d, key) == [k \in (DOMAIN d) \ {key} |-> d[k]]

\* The eight type names the function knows, and some it does not know.
KnownTypes ==
    {"CiderGGAPASDW", "CiderMGGAPASDW", "CiderGGA", "CiderMGGA",
     "SLCiderGGA", "SLCiderMGGA", "DiffGGA", "DiffMGGA"}

UnknownTypes == {"CiderLDA", "SLCider", "fast_paw.CiderGGA", "DiffLDA", "PBE"}

\* "Cider" in cider_type, "SLCider" in cider_type: over the names above.
InCider(cider_type) == cider_type \notin {"DiffGGA", "DiffMGGA", "DiffLDA", "PBE"}

InSLCider(cider_type) == cider_type \in {"SLCiderGGA", "SLCiderMGGA", "SLCider"}

\* A variant that offers the fast_paw classes for the semilocal types too.
FromDictClass_fast_everywhere(cider_type, is_fast) ==
    IF cider_type \in KnownTypes
    THEN [out |-> "chosen",
          cls |-> IF is_fast /\ InCider(cider_type)
                  THEN "fast_paw." \o cider_type ELSE cider_type,
          kcls |-> IF cider_type \in {"CiderGGAPASDW", "CiderGGA"}
                   THEN "CiderGGAHybridKernel"
                   ELSE IF cider_type \in {"CiderMGGAPASDW", "CiderMGGA"}
                        THEN "CiderMGGAHybridKernel"
                        ELSE IF InCider(cider_type)
                             THEN cider_type \o "HybridWrapper"
                             ELSE "None"]
    ELSE [out |-> "ValueError", cls |-> "None", kcls |-> "None"]

\* The if/elif chain of lines 273-298: the class and the kernel class.
FromDictClass(cider_type, is_fast) ==
    IF cider_type = "CiderGGAPASDW"
    THEN [out |-> "chosen",
          cls |-> IF is_fast THEN "fast_paw.CiderGGAPASDW" ELSE "CiderGGAPASDW",
          kcls |-> "CiderGGAHybridKernel"]
    ELSE IF cider_type = "CiderMGGAPASDW"
    THEN [out |-> "chosen",
          cls |-> IF is_fast THEN "fast_paw.CiderMGGAPASDW" ELSE "CiderMGGAPASDW",
          kcls |-> "CiderMGGAHybridKernel"]
    ELSE IF cider_type = "CiderGGA"
    THEN [out |-> "chosen",
          cls |-> IF is_fast THEN "fast_paw.CiderGGA" ELSE "CiderGGA",
          kcls |-> "CiderGGAHybridKernel"]
    ELSE IF cider_type = "CiderMGGA"
    THEN [out |-> "chosen",
          cls |-> IF is_fast THEN "fast_paw.CiderMGGA" ELSE "CiderMGGA",
          kcls |-> "CiderMGGAHybridKernel"]
    ELSE IF cider_type = "SLCiderGGA"
    THEN [out |-> "chosen", cls |-> "SLCiderGGA", kcls |-> "SLCiderGGAHybridWrapper"]
    ELSE IF cider_type = "SLCiderMGGA"
    THEN [out |-> "chosen", cls |-> "SLCiderMGGA", kcls |-> "SLCiderMGGAHybridWrapper"]
    ELSE IF cider_type = "DiffGGA"
    THEN [out |-> "chosen", cls |-> "DiffGGA", kcls |-> "None"]
    ELSE IF cider_type = "DiffMGGA"
    THEN [out |-> "chosen", cls |-> "DiffMGGA", kcls |-> "None"]
    ELSE [out |-> "ValueError", cls |-> "None", kcls |-> "None"]

NoFunctional == [cls |-> "None"]

\* cider_functional_from_dict(d): the two pops, the chain, and the object
\* built: an ML class over kcls(mlfunc, **kernel_params), with **xc_params
\* unless the type is semilocal, or a Diff class over LibXC(d["name"]).
cider_functional_from_dict(d) ==
    LET cider_type == d["_cider_type"]
        d1 == DictPop(d, "_cider_type")
        is_fast == IF "_cider_fast" \in DOMAIN d1 THEN d1["_cider_fast"] ELSE FALSE
        d2 == DictPop(d1, "_cider_fast")
        c == FromDictClass(cider_type, is_fast)
    IN IF c.out = "ValueError"
       THEN [out |-> "ValueError", xc |-> NoFunctional, d |-> d2]
       ELSE IF InCider(cider_type)
            THEN LET cider_kernel == [cls |-> c.kcls, mlfunc |-> d2["mlfunc"],
                                      params |-> d2["kernel_params"]]
                 IN IF InSLCider(cider_type)
                    THEN [out |-> "returned",
                          xc |-> [cls |-> c.cls, kernel |-> cider_kernel],
                          d |-> d2]
                    ELSE [out |-> "returned",
                          xc |-> [cls |-> c.cls, kernel |-> cider_kernel,
                                  params |-> d2["xc_params"]],
                          d |-> d2]
            ELSE [out |-> "returned",
                  xc |-> [cls |-> c.cls, kernel |-> [cls |-> "LibXC", name |-> d2["name"]]],
                  d |-> d2]

\* Dictionaries as they are stored: a type name, _cider_fast set or left
\* out, and the entries the builders read.
FastEntries == {<<>>, "_cider_fast" :> TRUE, "_cider_fast" :> FALSE}

StoredEntries ==
    {("mlfunc" :> m) @@ ("kernel_params" :> [xmix |-> x])
     @@ ("xc_params" :> [encut |-> 300]) @@ ("name" :> n) :
        m \in {"yaml-1", "yaml-2"}, x \in {100, 25}, n \in {"PBE"}}

DictInputs ==
    {("_cider_type" :> t) @@ f @@ e :
        t \in KnownTypes \cup UnknownTypes, f \in FastEntries, e \in StoredEntries}

\* ------------------------------------------------------ CiderGPAW.__init__
\* The values an xc keyword can have: a name, a dictionary with or without
\* the key _cider_type, a functional object.
XcValues ==
    {[kind |-> "str", keys |-> {}],
     [kind |-> "dict", keys |-> {"_cider_type", "kernel_params", "xc_params"}],
     [kind |-> "dict", keys |-> {"_cider_type", "name"}],
     [kind |-> "dict", keys |-> {"name", "kernel"}],
     [kind |-> "object", keys |-> {}]}

\* isinstance(kwargs.get("xc"), dict) and "_cider_type" in kwargs["xc"]
IsCiderDict(kwargs) ==
    /\ "xc" \in DOMAIN kwargs
    /\ kwargs["xc"].kind = "dict"
    /\ "_cider_type" \in kwargs["xc"].keys

\* A variant that reads mlfunc_data and leaves it among the keyword arguments.
CiderGPAW_init_get(restart, kwargs) ==
    IF IsCiderDict(kwargs) /\ "mlfunc_data" \notin DOMAIN kwargs
    THEN [out |-> "ValueError", base |-> FALSE, has_mlfunc_data |-> FALSE]
    ELSE IF IsCiderDict(kwargs)
         THEN [out |-> "constructed", base |-> TRUE, has_mlfunc_data |-> TRUE,
               mlfunc_data |-> kwargs["mlfunc_data"],
               base_args |-> [restart |-> restart, kwargs |-> kwargs]]
         ELSE [out |-> "constructed", base |-> TRUE, has_mlfunc_data |-> FALSE,
               base_args |-> [restart |-> restart, kwargs |-> kwargs]]

\* CiderGPAW.__init__: the test on xc, the ValueError, the pop into
\* self._mlfunc_data, and the call of the base constructor with what is left.
CiderGPAW_init(restart, kwargs) ==
    IF IsCiderDict(kwargs) /\ "mlfunc_data" \notin DOMAIN kwargs
    THEN [out |-> "ValueError", base |-> FALSE, has_mlfunc_data |-> FALSE]
    ELSE IF IsCiderDict(kwargs)
         THEN [out |-> "constructed", base |-> TRUE, has_mlfunc_data |-> TRUE,
               mlfunc_data |-> kwargs["mlfunc_data"],
               base_args |-> [restart |-> restart,
                              kwargs |-> DictPop(kwargs, "mlfunc_data")]]
         ELSE [out |-> "constructed", base |-> TRUE, has_mlfunc_data |-> FALSE,
               base_args |-> [restart |-> restart, kwargs |-> kwargs]]

\* Keyword arguments: each of xc, mlfunc_data, mode and h given or left out.
KwargsInputs ==
    {x @@ m @@ o @@ h :
        x \in {<<>>} \cup {"xc" :> v : v \in XcValues},
        m \in {<<>>, "mlfunc_data" :> "yaml-1", "mlfunc_data" :> "yaml-2"},
        o \in {<<>>, "mode" :> "pw"},
        h \in {<<>>, "h" :> 2}}

\* ----------------------- calculate_paw_cider_energy: one atom, with numbers
\* The radial energy calculator as far as the stage sees it: a field vf_srLq
\* and an energy that depend on the field handed over, on D_sp and on the
\* branch, and on nothing else (CiderRadialEnergyCalculator.__call__ over
\* get_paw_atom_contribs_en; its numerics are an integer stand-in).
get_paw_atom_contribs_en(f_srLq, D_sp, ae) ==
    [k \in RecIdx |-> (IF ae THEN 2 ELSE 1) * f_srLq[k] + D_sp * (k[2] + k[4])]

\* calculate_cider_paw_correction(expansion, setup, D_sp, separate_ae_ps=True)
\* for an energy-mode expansion: the expansion is called on both branches.
EnergyCorrection(ft_sgLq, df_sgLq, D_sp) ==
    LET f_ae == CiderRadialExpansion_call("energy", ft_sgLq, df_sgLq, TRUE).f_srLq
        f_ps == CiderRadialExpansion_call("energy", ft_sgLq, df_sgLq, FALSE).f_srLq
    IN [deltaE |-> SumF([g \in Gs |-> f_ae[<<0, g, 0, 0>>] - f_ps[<<0, g, 0, 0>>]]) + D_sp,
        deltaV |-> 3 * D_sp,
        vf_sgLq |-> get_paw_atom_contribs_en(f_ae, D_sp, TRUE),
        vft_sgLq |-> get_paw_atom_contribs_en(f_ps, D_sp, FALSE)]

\* dvD_sq = np.einsum("sgq,g->sq", vft_sgLq[:, :, L, :Nalpha_sm], ffuncs_jg[j])
dvD_sq(pa, vft, i, s, q) ==
    SumF([g \in Gs |-> vft[<<s, g, pa.lmlist_i[i + 1], q>>]
                        * ffuncs_jg(pa.jlist_i[i + 1], g)])

\* A variant that projects the field it is subtracting from.
BackProjectStep_running(pa, Nalpha_sm, vft, acc, i) ==
    LET L == pa.lmlist_i[i + 1]
        n == nlist_i(pa, i)
    IN [dvD |-> [k \in DOMAIN acc.dvD |->
                   IF k[2] = i THEN dvD_sq(pa, acc.vfr, i, k[1], k[3]) ELSE acc.dvD[k]],
        vfr |-> [k \in RecIdx |->
                   IF k[3] = L /\ k[4] < Nalpha_sm
                   THEN acc.vfr[k] - dvD_sq(pa, acc.vfr, i, k[1], k[4])
                                     * pfuncs_ng(n, k[2]) * get_dv(k[2])
                   ELSE acc.vfr[k]]]

\* One pass of the second loop over the projectors (lines 1020-1034):
\* dvD_asiq[a][:, i] = dvD_sq and
\* vfr_sgLq[:, :, L, :Nalpha_sm] -= (dvD_sq * pfuncs_ng[n]) * dv_g
BackProjectStep(pa, Nalpha_sm, vft, acc, i) ==
    LET L == pa.lmlist_i[i + 1]
        n == nlist_i(pa, i)
    IN [dvD |-> [k \in DOMAIN acc.dvD |->
                   IF k[2] = i THEN dvD_sq(pa, vft, i, k[1], k[3]) ELSE acc.dvD[k]],
        vfr |-> [k \in RecIdx |->
                   IF k[3] = L /\ k[4] < Nalpha_sm
                   THEN acc.vfr[k] - dvD_sq(pa, vft, i, k[1], k[4])
                                     * pfuncs_ng(n, k[2]) * get_dv(k[2])
                   ELSE acc.vfr[k]]]

RECURSIVE BackProjectLoop(_, _, _, _, _)
BackProjectLoop(pa, Nalpha_sm, vft, acc, i) ==
    IF i >= Len(pa.lmlist_i)
    THEN acc
    ELSE BackProjectLoop(pa, Nalpha_sm, vft,
                         BackProjectStep(pa, Nalpha_sm, vft, acc, i), i + 1)

\* A variant whose ft_sgLq is the stored fr_sgLq itself, not a new array.
energy_atom_ft_aliases_fr(pa, st, D_sp, D, Nalpha_sm) ==
    LET ft == energy_ft_sgLq(pa, D, st.fr, Nalpha_sm)
        r == EnergyCorrection(ft, st.df, D_sp)
        v == [k \in RecIdx |-> r.vf_sgLq[k] - r.vft_sgLq[k]]
        b == BackProjectLoop(pa, Nalpha_sm, v,
                             [dvD |-> [k \in DIdx(pa, Nalpha_sm) |-> 0], vfr |-> v], 0)
    IN [st |-> [st EXCEPT !.fr = ft], D_sp |-> D_sp, D |-> D,
        ret |-> [dvD |-> b.dvD, deltaE |-> r.deltaE, deltaV |-> r.deltaV],
        vfr |-> b.vfr, vdf |-> r.vf_sgLq, vf |-> r.vf_sgLq, vft |-> r.vft_sgLq]

\* The body of the loop over the atoms of calculate_paw_cider_energy (lines
\* 980-1036) for one atom: st holds the stored fr_asgLq[a], df_asgLq[a] and
\* c_asiq[a].  The result carries the stored arrays and the inputs as the
\* body leaves them, what it returns for the atom, what it stores as
\* vfr_asgLq[a] and vdf_asgLq[a], and the two fields the correction returned.
energy_atom(pa, st, D_sp, D, Nalpha_sm) ==
    LET ft == energy_ft_sgLq(pa, D, st.fr, Nalpha_sm)
        r == EnergyCorrection(ft, st.df, D_sp)
        v == [k \in RecIdx |-> r.vf_sgLq[k] - r.vft_sgLq[k]]
        b == BackProjectLoop(pa, Nalpha_sm, v,
                             [dvD |-> [k \in DIdx(pa, Nalpha_sm) |-> 0], vfr |-> v], 0)
    IN [st |-> st, D_sp |-> D_sp, D |-> D,
        ret |-> [dvD |-> b.dvD, deltaE |-> r.deltaE, deltaV |-> r.deltaV],
        vfr |-> b.vfr, vdf |-> r.vf_sgLq, vf |-> r.vf_sgLq, vft |-> r.vft_sgLq]

\* The stored difference fields drawn.
EnDfFields == {[k \in RecIdx |-> x * (k[3] + 1) - k[2]] : x \in {0, 1}}

\* ------------------------------------ kinetic-energy contraction (contribs)
\* One spin; the density matrix D_sp and _dH_sp are vectors over the pairs
\* p, the kinetic functions and weights are integer stand-ins.
MaxKinCalls == 2

Pairs == {0, 1}

tau_pg(p, g) == p + g + 1

taut_pg(p, g) == 2 * p - g + 2

w_g(g) == g + 1

\* set_D_sp: self._dH_sp = np.zeros_like(D_sp); self._D_sp = D_sp
set_D_sp(c, D_sp) ==
    [c EXCEPT !.has_D = TRUE, !.dH_sp = [p \in DOMAIN D_sp |-> 0], !.D_sp = D_sp]

\* A variant with one sign for both branches.
contract_kinetic_potential_plus(c, dedtau_sg, ae) ==
    [c EXCEPT !.dH_sp =
        [p \in DOMAIN c.dH_sp |->
           c.dH_sp[p] + SumF([g \in Gs |->
                                dedtau_sg[g] * w_g(g)
                                * (IF ae THEN tau_pg(p, g) ELSE taut_pg(p, g))])]]

\* contract_kinetic_potential: tau_pg and sign = 1.0 if ae, taut_pg and
\* sign = -1.0 otherwise; self._dH_sp += np.dot(dedtau_sg * wt, tau_pg.T)
contract_kinetic_potential(c, dedtau_sg, ae) ==
    LET sign == IF ae THEN 1 ELSE -1
    IN [c EXCEPT !.dH_sp =
          [p \in DOMAIN c.dH_sp |->
             c.dH_sp[p] + SumF([g \in Gs |->
                                  dedtau_sg[g] * (w_g(g) * sign)
                                  * (IF ae THEN tau_pg(p, g) ELSE taut_pg(p, g))])]]

\* The __call__ of the three radial calculators, as far as the contribs
\* object goes: rho_sxg has five components exactly for a meta-GGA
\* (vec_radial_vars), the feature calculator never contracts, the other two
\* contract vrho_sxg[:, 4] when rho_sxg.shape[1] == 5.  For a meta-GGA
\* vec_radial_vars reads self._D_sp, which set_D_sp must have set.
RadialCalculatorCall(c, mode, dedtau_sg, ae) ==
    LET nx == IF c.is_mgga THEN 5 ELSE 4
    IN IF c.is_mgga /\ ~c.has_D
       THEN [c |-> c, out |-> "AttributeError"]
       ELSE IF mode \in {"energy", "potential"} /\ nx = 5
            THEN [c |-> contract_kinetic_potential(c, dedtau_sg, ae), out |-> "returned"]
            ELSE [c |-> c, out |-> "returned"]

DedtauFields == [Gs -> {-1, 1}]

\* Density matrices of a setup with two pairs and of one with a single pair;
\* the kinetic functions of a setup have as many rows as its D_sp has pairs.
DspInputs == [Pairs -> {1}] \cup [{0} -> {1}]

\* -------------------- calculate_paw_cider_potential: one atom, with numbers
\* The stored fields of an atom have the layout (s, g, L, q) with NQ columns;
\* Nalpha_sm = psetup.phi_jabg.shape[1] of them belong to the fit basis.
Nalpha_sm_ps == NA

PotIdx == Spins \X Gs \X Ls \X Qs

\* x.transpose(0, 3, 2, 1) of a field (s, g, L, q), restricted to columns B
Transposed(x, B) == [k \in Spins \X B \X Ls \X Gs |-> x[<<k[1], k[4], k[3], k[2]>>]]

\* get_vf_realspace_contribs(vyt_sbLg, None, sl=True): dv_g is all ones.
get_vf_realspace_contribs(t, vyt_sbLg) ==
    [k \in CIdx |->
        SumF([bg \in Bs \X Gs |->
                phi_sr_jabg(t.jlist_i[k[2] + 1], k[3], bg[1], bg[2])
                * vyt_sbLg[<<k[1], bg[1], t.lmlist_i[k[2] + 1], bg[2]>>]])]

\* get_vdf_realspace_contribs(vy_sbLg, None, sl=True) over the columns B,
\* returned as (s, L, p, b).
get_vdf_realspace_contribs(t, vy_sbLg, B) ==
    LET visited == LoopLs(t)
    IN [k \in Spins \X Ls \X Ps \X B |->
          IF k[2] \in visited
          THEN SumF([g \in Gs |-> vy_sbLg[<<k[1], k[4], k[2], g>>]
                                  * deltasl_lpg(lOf(k[2]), k[3], g)])
          ELSE 0]

\* get_vdf_only(df_sLpb, realspace=False) over the columns B
get_vdf_only(t, df_sLpb, B) ==
    LET visited == LoopLs(t)
    IN [k \in Spins \X B \X Ls \X Gs |->
          IF k[3] \in visited
          THEN SumF([p \in Ps |-> df_sLpb[<<k[1], k[3], p, k[2]>>]
                                  * delta_lpk(lOf(k[3]), p, k[4])])
          ELSE 0]

\* What the rest of the body (lines 1095-1119) makes of the stored vfr, of
\* vdy_sgLq and of D_sp: the convolution, the cutoff and the radial
\* calculator build new arrays only; an integer stand-in for dH_asp[a].
PotentialTail(vyt_sgLq, vdy_sgLq, D_sp) ==
    SumF([g \in Gs |-> vyt_sgLq[<<0, g, 0, 0>>] + vdy_sgLq[<<0, g, 0, 0>>]]) + D_sp

\* A variant that adds into a new array and leaves the caller's alone.
potential_atom_new_vc(t, st, vc_siq, D_sp) ==
    LET Nsm == 0 .. (Nalpha_sm_ps - 1)
        rest == Qs \ Nsm
        vc2 == [k \in CIdx |->
                  vc_siq[k] + get_vf_realspace_contribs(t, Transposed(st.vfr, Nsm))[k]]
        vdf_sLpq == get_vdf_realspace_contribs(t, Transposed(st.vdf, Qs), Qs)
        v1 == get_v_from_c_and_df(t, vc2, [k \in DfIdx |-> vdf_sLpq[k]])
        v2 == get_vdf_only(t, vdf_sLpq, rest)
        vdy == [k \in PotIdx |->
                  (IF k[4] \in Nsm
                   THEN v1[<<k[1], k[4], k[3], k[2]>>]
                   ELSE v2[<<k[1], k[4], k[3], k[2]>>]) * get_dvk(k[2])]
    IN [st |-> st, vc |-> vc_siq, vdy_sgLq |-> vdy,
        dH |-> PotentialTail(st.vfr, vdy, D_sp)]

\* The body of the loop over the atoms of calculate_paw_cider_potential for
\* one atom: st holds the five stored arrays of the atom, vc_siq is the
\* caller's vc_asiq[a].  The result carries both as the body leaves them.
potential_atom(t, st, vc_siq, D_sp) ==
    LET Nsm == 0 .. (Nalpha_sm_ps - 1)
        rest == Qs \ Nsm
        add == get_vf_realspace_contribs(t, Transposed(st.vfr, Nsm))
        vc2 == [k \in CIdx |-> vc_siq[k] + add[k]]
        vdf_sLpq == get_vdf_realspace_contribs(t, Transposed(st.vdf, Qs), Qs)
        v1 == get_v_from_c_and_df(t, vc2, [k \in DfIdx |-> vdf_sLpq[k]])
        v2 == get_vdf_only(t, vdf_sLpq, rest)
        vdy == [k \in PotIdx |->
                  (IF k[4] \in Nsm
                   THEN v1[<<k[1], k[4], k[3], k[2]>>]
                   ELSE v2[<<k[1], k[4], k[3], k[2]>>]) * get_dvk(k[2])]
    IN [st |-> st, vc |-> vc2, vdy_sgLq |-> vdy,
        dH |-> PotentialTail(st.vfr, vdy, D_sp)]

\* Stored adjoint fields: zero, or one entry, inside or beyond the fit columns.
PotFields ==
    {[k \in PotIdx |-> 0]}
    \cup {[k \in PotIdx |-> IF k = <<0, 0, L, q>> THEN v ELSE 0] :
            L \in {0, 3, 9}, q \in Qs, v \in {-1, 2}}

PotVdfFields ==
    {[k \in PotIdx |-> 0]}
    \cup {[k \in PotIdx |-> IF k = <<0, 1, 3, q>> THEN 1 ELSE 0] : q \in Qs}

\* ------------------------------------------- the cutoff in the two stages
\* fcut on the radial points: 1 inside rcut, 0 beyond rmax, and a value in
\* between, for which 3 stands.
FcutFields == [RadIdx -> {0, 1, 3}]

MulFields(x, y) == [i \in DOMAIN x |-> x[i] * y[i]]

SubFields(x, y) == [i \in DOMAIN x |-> x[i] - y[i]]

\* calculate_paw_cider_features, lines 898-909: dx_sgLq -= xt_sgLq, then
\* xt_sgLq *= fcut; (x, xt) is what the correction returned.
FeatureCut(x, xt, fcut) ==
    LET dx == SubFields(x, xt)
    IN [dx |-> dx, xt |-> MulFields(xt, fcut)]

\* A variant that combines before it cuts.
PotentialCut_late(vxt, vdx, fcut) ==
    [ft |-> SubFields(vdx, vxt), df |-> MulFields(vxt, fcut)]

\* calculate_paw_cider_potential, lines 1104-1117: vxt_sgLq *= fcut,
\* F_sbLg = vdx_sgLq - vxt_sgLq, y_sbLg = vxt_sgLq.copy(); the expansion is
\* built over (F_sbLg, y_sbLg) as its (ft_srLq, df_srLq).
PotentialCut(vxt, vdx, fcut) ==
    LET vxt_cut == MulFields(vxt, fcut)
    IN [ft |-> SubFields(vdx, vxt_cut), df |-> vxt_cut]

CutFields == [RadIdx -> {-1, 2}]

InitKernel ==
    /\ fr_asgLq = Unset
    /\ df_asgLq = Unset
    /\ c_asiq = Unset
    /\ vfr_asgLq = Unset
    /\ vdf_asgLq = Unset
    /\ setups = [a \in Atoms |-> {}]
    /\ cho_fails \in [Atoms -> ChoFailures]
    /\ last = [op |-> "none", via |-> "none", args |-> NoArgs, D |-> {},
               out |-> "none", ret |-> <<>>]

Init ==
    /\ InitKernel
    /\ InitSetupVarsIdle
    /\ InitProjVarsIdle
    /\ InitAuxVarsIdle

InitializeMoreThings ==
    LET r == InitLoop(setups, cho_fails, {}, 1)
    IN /\ setups' = r.setups
       /\ last' = [op |-> "initialize_more_things", via |-> "direct", args |-> NoArgs,
                   D |-> {}, out |-> r.out, ret |-> <<>>, built |-> r.built]
       /\ UNCHANGED <<fr_asgLq, df_asgLq, c_asiq, vfr_asgLq, vdf_asgLq, cho_fails, SetupVars, ProjVars, AuxVars, LateVars>>

CallFeatures ==
    \E D \in DaspInputs :
        LET r == calculate_paw_cider_features(Kernel, setups, D)
        IN /\ SetKernel(r.k)
           /\ last' = [op |-> "features", via |-> "direct", args |-> NoArgs,
                       D |-> Keys(D), out |-> r.out, ret |-> r.ret]
           /\ setups' = r.su
           /\ UNCHANGED <<cho_fails, SetupVars, ProjVars, AuxVars, LateVars>>

CallEnergy ==
    \E D \in DaspInputs : \E D_asiq_keys \in KeySetsFor(D) :
        LET r == calculate_paw_cider_energy(Kernel, setups, D, D_asiq_keys)
        IN /\ SetKernel(r.k)
           /\ last' = [op |-> "energy", via |-> "direct", args |-> NoArgs,
                       D |-> Keys(D), out |-> r.out, ret |-> r.ret]
           /\ setups' = r.su
           /\ UNCHANGED <<cho_fails, SetupVars, ProjVars, AuxVars, LateVars>>

CallPotential ==
    \E D \in DaspInputs : \E vc_asiq_keys \in KeySetsFor(D) :
        LET r == calculate_paw_cider_potential(Kernel, setups, D, vc_asiq_keys)
        IN /\ SetKernel(r.k)
           /\ last' = [op |-> "potential", via |-> "direct", args |-> NoArgs,
                       D |-> Keys(D), out |-> r.out, ret |-> r.ret]
           /\ setups' = r.su
           /\ UNCHANGED <<cho_fails, SetupVars, ProjVars, AuxVars, LateVars>>

CallFeatCorrections ==
    \E D \in DaspInputs : \E D_asiq \in OptDictsFor(D), df \in BOOLEAN, vc_asiq \in OptDictsFor(D) :
        LET r == calculate_paw_feat_corrections(Kernel, setups, D, D_asiq, df, vc_asiq)
        IN /\ SetKernel(r.k)
           /\ last' = [op |-> r.ran, via |-> "dispatch",
                       args |-> [D_asiq |-> D_asiq.given, df_asgLq |-> df,
                                 vc_asiq |-> vc_asiq.given],
                       D |-> Keys(D), out |-> r.out, ret |-> r.ret]
           /\ setups' = r.su
           /\ UNCHANGED <<cho_fails, SetupVars, ProjVars, AuxVars, LateVars>>

\* The kernel driven through its three entry points.
Next ==
    \/ InitializeMoreThings
    \/ CallFeatures
    \/ CallEnergy
    \/ CallPotential

Spec == Init /\ [][Next]_vars

\* The kernel driven through the dispatcher alone, over setups whose
\* factorisations succeed.
InitDispatch ==
    /\ Init
    /\ cho_fails = [a \in Atoms |-> "none"]

NextDispatch ==
    \/ InitializeMoreThings
    \/ CallFeatCorrections

SpecDispatch == InitDispatch /\ [][NextDispatch]_vars

\* initialize_more_things over setups of any Z, with the data it computes.
InitSetupSpec ==
    /\ InitKernel
    /\ cho_fails = [a \in Atoms |-> "none"]
    /\ plan \in Plans
    /\ zsetups \in [Atoms -> {NewZSetup(Z) : Z \in ZVals}]
    /\ InitProjVarsIdle
    /\ InitAuxVarsIdle

InitializeMoreThingsZ ==
    /\ zsetups' = InitZLoop(zsetups, plan, 1)
    /\ UNCHANGED <<KernelVars, plan, ProjVars, AuxVars, LateVars>>

NextSetup == InitializeMoreThingsZ

SpecSetup == InitSetupSpec /\ [][NextSetup]_vars

\* The projection routines of a PSmoothSetup: get_c_and_df is called on the
\* fields x, y and a*x + b*y, get_df_only on a*x + b*y, and the two real-space
\* routines on what get_c_and_df returned for a*x + b*y.
InitProj ==
    /\ InitKernel
    /\ cho_fails = [a \in Atoms |-> "none"]
    /\ InitSetupVarsIdle
    /\ pin \in [x : Fields1, y : Fields1, a : Scalars, b : Scalars]
    /\ pout = NoOutput
    /\ InitAuxVarsIdle

CallGetCAndDf ==
    /\ "get_c_and_df" \notin pout.done
    /\ pout' = [pout EXCEPT !.done = @ \cup {"get_c_and_df"},
                            !.rx = get_c_and_df(ProjSetup, pin.x),
                            !.ry = get_c_and_df(ProjSetup, pin.y),
                            !.rxy = get_c_and_df(ProjSetup,
                                                 Combine(pin.a, pin.x, pin.b, pin.y))]
    /\ UNCHANGED <<KernelVars, SetupVars, pin, AuxVars, LateVars>>

CallGetFRealspaceContribs ==
    /\ "get_c_and_df" \in pout.done
    /\ "get_f_realspace_contribs" \notin pout.done
    /\ pout' = [pout EXCEPT !.done = @ \cup {"get_f_realspace_contribs"},
                            !.f = get_f_realspace_contribs(ProjSetup, pout.rxy.c)]
    /\ UNCHANGED <<KernelVars, SetupVars, pin, AuxVars, LateVars>>

CallGetDfRealspaceContribs ==
    /\ "get_c_and_df" \in pout.done
    /\ "get_df_realspace_contribs" \notin pout.done
    /\ pout' = [pout EXCEPT !.done = @ \cup {"get_df_realspace_contribs"},
                            !.dfreal = get_df_realspace_contribs(ProjSetup, pout.rxy.df)]
    /\ UNCHANGED <<KernelVars, SetupVars, pin, AuxVars, LateVars>>

CallGetDfOnly ==
    /\ "get_df_only" \notin pout.done
    /\ pout' = [pout EXCEPT !.done = @ \cup {"get_df_only"},
                            !.dfonly = get_df_only(ProjSetup,
                                                  Combine(pin.a, pin.x, pin.b, pin.y))]
    /\ UNCHANGED <<KernelVars, SetupVars, pin, AuxVars, LateVars>>

NextProj ==
    \/ CallGetCAndDf
    \/ CallGetFRealspaceContribs
    \/ CallGetDfRealspaceContribs
    \/ CallGetDfOnly

SpecProj == InitProj /\ [][NextProj]_vars

\* get_c_and_df on a field y and get_v_from_c_and_df on vc, vdf, both with
\* realspace=False, for the same setup.
InitAdj ==
    /\ InitKernel
    /\ cho_fails = [a \in Atoms |-> "none"]
    /\ InitSetupVarsIdle
    /\ InitProjVarsIdle
    /\ adj \in [done : {FALSE}, y : Fields1, vc : VcInputs, vdf : VdfInputs]
    /\ shp = [done |-> FALSE]
    /\ rad = [stage |-> "idle"]
    /\ rec = [done |-> FALSE]
    /\ fn = [done |-> FALSE]
    /\ InitLateVarsIdle

CallForwardAndAdjoint ==
    /\ ~adj.done
    /\ adj' = [done |-> TRUE, y |-> adj.y, vc |-> adj.vc, vdf |-> adj.vdf,
               r |-> get_c_and_df(ProjSetup, adj.y),
               vy |-> get_v_from_c_and_df(ProjSetup, adj.vc, adj.vdf)]
    /\ UNCHANGED <<KernelVars, SetupVars, ProjVars, shp, rad, rec, fn, LateVars>>

NextAdj == CallForwardAndAdjoint

SpecAdj == InitAdj /\ [][NextAdj]_vars

\* calculate_paw_cider_energy and calculate_paw_cider_potential for one atom
\* whose input array (D_asiq[a], vc_asiq[a]) has the shape (xs, xi, xq).
InitShapes ==
    /\ InitKernel
    /\ cho_fails = [a \in Atoms |-> "none"]
    /\ InitSetupVarsIdle
    /\ InitProjVarsIdle
    /\ adj = [done |-> FALSE]
    /\ \E r \in ShapeInputs : shp = [done |-> FALSE, in |-> r]
    /\ rad = [stage |-> "idle"]
    /\ rec = [done |-> FALSE]
    /\ fn = [done |-> FALSE]
    /\ InitLateVarsIdle

CallEnergyShapes ==
    /\ ~shp.done
    /\ shp' = [done |-> TRUE, in |-> shp.in, op |-> "energy",
               out |-> EnergyShapes(shp.in.n0, shp.in.S, shp.in.Q, shp.in.ni,
                                    shp.in.xs, shp.in.xi, shp.in.xq)]
    /\ UNCHANGED <<KernelVars, SetupVars, ProjVars, adj, rad, rec, fn, LateVars>>

CallPotentialShapes ==
    /\ ~shp.done
    /\ shp' = [done |-> TRUE, in |-> shp.in, op |-> "potential",
               out |-> PotentialShapes(shp.in.n0, shp.in.S, shp.in.Nalpha_sm, shp.in.ni,
                                       shp.in.xs, shp.in.xi, shp.in.xq)]
    /\ UNCHANGED <<KernelVars, SetupVars, ProjVars, adj, rad, rec, fn, LateVars>>

NextShapes ==
    \/ CallEnergyShapes
    \/ CallPotentialShapes

SpecShapes == InitShapes /\ [][NextShapes]_vars

\* A CiderRadialExpansion is constructed over a calculator and two fields and,
\* if that succeeds, called on the all-electron or on the pseudo branch.
InitRadial ==
    /\ InitKernel
    /\ cho_fails = [a \in Atoms |-> "none"]
    /\ InitSetupVarsIdle
    /\ InitProjVarsIdle
    /\ adj = [done |-> FALSE]
    /\ shp = [done |-> FALSE]
    /\ rad \in [stage : {"new"}, mode : RadModes \cup OtherModes,
                 ft_srLq : RadFields, df_srLq : RadFields]
    /\ rec = [done |-> FALSE]
    /\ fn = [done |-> FALSE]
    /\ InitLateVarsIdle

ConstructRadialExpansion ==
    /\ rad.stage = "new"
    /\ rad' = [rad EXCEPT !.stage = CiderRadialExpansion_init(rad.mode)]
    /\ UNCHANGED <<KernelVars, SetupVars, ProjVars, adj, shp, rec, fn, LateVars>>

CallRadialExpansion ==
    /\ rad.stage = "constructed"
    /\ \E ae \in BOOLEAN :
         LET r == CiderRadialExpansion_call(rad.mode, rad.ft_srLq, rad.df_srLq, ae)
         IN rad' = [stage |-> "called", mode |-> rad.mode, ft_srLq |-> rad.ft_srLq,
                    df_srLq |-> rad.df_srLq, ae |-> ae, handed |-> r.handed,
                    f_srLq |-> r.f_srLq]
    /\ UNCHANGED <<KernelVars, SetupVars, ProjVars, adj, shp, rec, fn, LateVars>>

NextRadial ==
    \/ ConstructRadialExpansion
    \/ CallRadialExpansion

SpecRadial == InitRadial /\ [][NextRadial]_vars

\* The energy stage reconstructs ft for one atom from fr and the projections
\* D_asiq[a] it is given; Nalpha_sm is the last dimension of D_asiq[a].
InitRec ==
    /\ InitKernel
    /\ cho_fails = [a \in Atoms |-> "none"]
    /\ InitSetupVarsIdle
    /\ InitProjVarsIdle
    /\ adj = [done |-> FALSE]
    /\ shp = [done |-> FALSE]
    /\ rad = [stage |-> "idle"]
    /\ \E Nalpha_sm \in 1 .. NQ : \E fr \in RecFields :
         \E D \in RecProjections(RecSetup, fr, Nalpha_sm) :
           rec = [done |-> FALSE, Nalpha_sm |-> Nalpha_sm, fr |-> fr, D |-> D]
    /\ fn = [done |-> FALSE]
    /\ InitLateVarsIdle

CallEnergyReconstruction ==
    /\ ~rec.done
    /\ rec' = [done |-> TRUE, Nalpha_sm |-> rec.Nalpha_sm, fr |-> rec.fr, D |-> rec.D,
               ft |-> energy_ft_sgLq(RecSetup, rec.D, rec.fr, rec.Nalpha_sm)]
    /\ UNCHANGED <<KernelVars, SetupVars, ProjVars, adj, shp, rad, fn, LateVars>>

NextRec == CallEnergyReconstruction

SpecRec == InitRec /\ [][NextRec]_vars

\* get_cider_functional is called twice on one ML functional with the same
\* xmix, kernels and _force_nonlocal, each time with settings of its own.
InitFn ==
    /\ InitKernel
    /\ cho_fails = [a \in Atoms |-> "none"]
    /\ InitSetupVarsIdle
    /\ InitProjVarsIdle
    /\ adj = [done |-> FALSE]
    /\ shp = [done |-> FALSE]
    /\ rad = [stage |-> "idle"]
    /\ rec = [done |-> FALSE]
    /\ \E m \in MLFuncs : \E o \in OuterArgs :
         fn = [done |-> FALSE, mlfunc |-> m, outer |-> o, calls |-> <<>>]
    /\ InitLateVarsIdle

CallGetCiderFunctional ==
    /\ Len(fn.calls) < 2
    /\ \E i \in InnerArgs :
         fn' = [fn EXCEPT !.done = TRUE,
                          !.calls = Append(@, [args |-> i,
                                               xc |-> get_cider_functional(fn.mlfunc,
                                                                           fn.outer, i)])]
    /\ UNCHANGED <<KernelVars, SetupVars, ProjVars, adj, shp, rad, rec, LateVars>>

NextFn == CallGetCiderFunctional

SpecFn == InitFn /\ [][NextFn]_vars

\* Everything outside the late variables at rest.
InitBaseIdle ==
    /\ InitKernel
    /\ cho_fails = [a \in Atoms |-> "none"]
    /\ InitSetupVarsIdle
    /\ InitProjVarsIdle
    /\ adj = [done |-> FALSE]
    /\ shp = [done |-> FALSE]
    /\ rad = [stage |-> "idle"]
    /\ rec = [done |-> FALSE]
    /\ fn = [done |-> FALSE]

\* cider_functional_from_dict is called on a stored dictionary.
InitDict ==
    /\ InitBaseIdle
    /\ \E d \in DictInputs : dct = [done |-> FALSE, d |-> d]
    /\ gpw = [done |-> FALSE]
    /\ en = [done |-> FALSE]
    /\ kin = [done |-> FALSE]
    /\ pot = [done |-> FALSE]
    /\ cut = [done |-> FALSE]

CallFunctionalFromDict ==
    /\ ~dct.done
    /\ dct' = [done |-> TRUE, d |-> dct.d, r |-> cider_functional_from_dict(dct.d)]
    /\ UNCHANGED <<KernelVars, SetupVars, ProjVars, AuxVars, gpw, en, kin, pot, cut>>

NextDict == CallFunctionalFromDict

SpecDict == InitDict /\ [][NextDict]_vars

\* A CiderGPAW is constructed.
InitGpw ==
    /\ InitBaseIdle
    /\ dct = [done |-> FALSE]
    /\ \E kw \in KwargsInputs : \E restart \in {"None", "file.gpw"} :
         gpw = [done |-> FALSE, restart |-> restart, kwargs |-> kw]
    /\ en = [done |-> FALSE]
    /\ kin = [done |-> FALSE]
    /\ pot = [done |-> FALSE]
    /\ cut = [done |-> FALSE]

ConstructCiderGPAW ==
    /\ ~gpw.done
    /\ gpw' = [done |-> TRUE, restart |-> gpw.restart, kwargs |-> gpw.kwargs,
               r |-> CiderGPAW_init(gpw.restart, gpw.kwargs)]
    /\ UNCHANGED <<KernelVars, SetupVars, ProjVars, AuxVars, dct, en, kin, pot, cut>>

NextGpw == ConstructCiderGPAW

SpecGpw == InitGpw /\ [][NextGpw]_vars

\* After one features call has stored fr, df and c for an atom, the energy
\* stage runs on that atom twice with the same D_sp and D_asiq[a].
InitEn ==
    /\ InitBaseIdle
    /\ dct = [done |-> FALSE]
    /\ gpw = [done |-> FALSE]
    /\ \E Nalpha_sm \in 1 .. NQ : \E fr \in RecFields : \E df \in EnDfFields :
         \E D \in RecProjections(RecSetup, fr, Nalpha_sm) : \E D_sp \in {1, 2} :
           en = [done |-> FALSE, Nalpha_sm |-> Nalpha_sm,
                 st0 |-> [fr |-> fr, df |-> df, c |-> 7],
                 st |-> [fr |-> fr, df |-> df, c |-> 7],
                 D_sp0 |-> D_sp, D_sp |-> D_sp, D0 |-> D, D |-> D, calls |-> <<>>]
    /\ kin = [done |-> FALSE]
    /\ pot = [done |-> FALSE]
    /\ cut = [done |-> FALSE]

CallEnergyAtom ==
    /\ Len(en.calls) < 2
    /\ LET r == energy_atom(RecSetup, en.st, en.D_sp, en.D, en.Nalpha_sm)
       IN en' = [en EXCEPT !.done = TRUE, !.st = r.st, !.D_sp = r.D_sp, !.D = r.D,
                           !.calls = Append(@, [ret |-> r.ret, vfr |-> r.vfr,
                                                vdf |-> r.vdf, vf |-> r.vf,
                                                vft |-> r.vft])]
    /\ UNCHANGED <<KernelVars, SetupVars, ProjVars, AuxVars, dct, gpw, kin, pot, cut>>

NextEn == CallEnergyAtom

SpecEn == InitEn /\ [][NextEn]_vars

\* A contribs object of a GGA or a meta-GGA: set_D_sp and calls of the
\* radial calculators on either branch, in any order.
InitKin ==
    /\ InitBaseIdle
    /\ dct = [done |-> FALSE]
    /\ gpw = [done |-> FALSE]
    /\ en = [done |-> FALSE]
    /\ \E m \in BOOLEAN :
         kin = [done |-> FALSE, n |-> 0,
                c |-> [is_mgga |-> m, has_D |-> FALSE, dH_sp |-> <<>>, D_sp |-> <<>>],
                op |-> "none", out |-> "none"]
    /\ pot = [done |-> FALSE]
    /\ cut = [done |-> FALSE]

CallSetDsp ==
    /\ kin.n < MaxKinCalls + 1
    /\ \E D_sp \in DspInputs :
         kin' = [done |-> TRUE, n |-> kin.n + 1, c |-> set_D_sp(kin.c, D_sp),
                 op |-> "set_D_sp", out |-> "returned", D_sp |-> D_sp]
    /\ UNCHANGED <<KernelVars, SetupVars, ProjVars, AuxVars, dct, gpw, en, pot, cut>>

CallRadialCalculator ==
    /\ kin.n < MaxKinCalls + 1
    /\ \E mode \in RadModes : \E ae \in BOOLEAN : \E dedtau_sg \in DedtauFields :
         LET r == RadialCalculatorCall(kin.c, mode, dedtau_sg, ae)
         IN kin' = [done |-> TRUE, n |-> kin.n + 1, c |-> r.c, op |-> mode,
                    out |-> r.out, ae |-> ae, dedtau_sg |-> dedtau_sg]
    /\ UNCHANGED <<KernelVars, SetupVars, ProjVars, AuxVars, dct, gpw, en, pot, cut>>

NextKin ==
    \/ CallSetDsp
    \/ CallRadialCalculator

SpecKin == InitKin /\ [][NextKin]_vars

\* After the energy stage has stored vfr and vdf for an atom, the potential
\* stage runs on that atom with the caller's vc_asiq[a].
InitPot ==
    /\ InitBaseIdle
    /\ dct = [done |-> FALSE]
    /\ gpw = [done |-> FALSE]
    /\ en = [done |-> FALSE]
    /\ kin = [done |-> FALSE]
    /\ \E vfr \in PotFields : \E vdf \in PotVdfFields : \E vc \in VcInputs :
         pot = [done |-> FALSE,
                st |-> [fr |-> 5, df |-> 6, c |-> 7, vfr |-> vfr, vdf |-> vdf],
                vc |-> vc]
    /\ cut = [done |-> FALSE]

CallPotentialAtom ==
    /\ ~pot.done
    /\ pot' = [done |-> TRUE, st |-> pot.st, vc |-> pot.vc,
               r |-> potential_atom(ProjSetup, pot.st, pot.vc, 1)]
    /\ UNCHANGED <<KernelVars, SetupVars, ProjVars, AuxVars, dct, gpw, en, kin, cut>>

NextPot == CallPotentialAtom

SpecPot == InitPot /\ [][NextPot]_vars

\* The feature stage cuts the fields of an atom; later the potential stage
\* cuts the adjoint fields with the same fcut and hands the result to the
\* radial potential calculator on both branches.
InitCut ==
    /\ InitBaseIdle
    /\ dct = [done |-> FALSE]
    /\ gpw = [done |-> FALSE]
    /\ en = [done |-> FALSE]
    /\ kin = [done |-> FALSE]
    /\ pot = [done |-> FALSE]
    /\ \E xt \in CutFields : \E vxt \in CutFields : \E vdx \in CutFields :
         \E fcut \in FcutFields :
           cut = [done |-> FALSE, stage |-> "new", x |-> [i \in RadIdx |-> i], xt |-> xt,
                  vxt |-> vxt, vdx |-> vdx, fcut |-> fcut]

CallFeaturesCut ==
    /\ cut.stage = "new"
    /\ cut' = [done |-> FALSE, stage |-> "features", x |-> cut.x, xt |-> cut.xt,
               vxt |-> cut.vxt, vdx |-> cut.vdx, fcut |-> cut.fcut,
               f |-> FeatureCut(cut.x, cut.xt, cut.fcut)]
    /\ UNCHANGED <<KernelVars, SetupVars, ProjVars, AuxVars, dct, gpw, en, kin, pot>>

CallPotentialCut ==
    /\ cut.stage = "features"
    /\ LET e == PotentialCut(cut.vxt, cut.vdx, cut.fcut)
       IN cut' = [done |-> TRUE, stage |-> "potential", x |-> cut.x, xt |-> cut.xt,
                  vxt |-> cut.vxt, vdx |-> cut.vdx, fcut |-> cut.fcut, f |-> cut.f,
                  theta_ae |-> CiderRadialExpansion_call("potential", e.ft, e.df,
                                                         TRUE).f_srLq,
                  theta_ps |-> CiderRadialExpansion_call("potential", e.ft, e.df,
                                                         FALSE).f_srLq]
    /\ UNCHANGED <<KernelVars, SetupVars, ProjVars, AuxVars, dct, gpw, en, kin, pot>>

NextCut ==
    \/ CallFeaturesCut
    \/ CallPotentialCut

SpecCut == InitCut /\ [][NextCut]_vars

KernelAttrs == <<fr_asgLq, df_asgLq, c_asiq, vfr_asgLq, vdf_asgLq>>

AllInitialized == \A a \in Atoms : setups[a] = SetupAttrs

\* ------------------------------------------------------------------ claims
\* C1: on a kernel that has not run calculate_paw_cider_features (fr_asgLq was
\* never assigned), calculate_paw_cider_energy with a non-empty D_asp raises,
\* and so does calculate_paw_cider_potential with a non-empty D_asp on a kernel
\* that has not run calculate_paw_cider_energy (vfr_asgLq was never assigned);
\* neither call returns a result.
C1_OutOfOrderRaises ==
    [][((last'.op = "energy" /\ ~fr_asgLq.set) \/ (last'.op = "potential" /\ ~vfr_asgLq.set))
        /\ last'.D # {}
       => last'.out \in {"AttributeError", "KeyError"} /\ last'.ret = <<>>]_vars

\* Energy was called first on fully initialised setups and raised on the
\* missing attribute of the kernel.
C1_Witness ==
    /\ last.op = "energy"
    /\ last.D # {}
    /\ last.out = "AttributeError"
    /\ AllInitialized
    /\ ~fr_asgLq.set
    /\ vfr_asgLq.set

\* C2 (as claimed): when calculate_paw_cider_potential has returned for a
\* non-empty D_asp, the per-atom state of the earlier calls has been released:
\* none of fr_asgLq, df_asgLq, c_asiq, vfr_asgLq, vdf_asgLq holds an entry.
C2_StateReleasedAfterPotential ==
    (last.op = "potential" /\ last.out = "returned" /\ last.D # {})
    => /\ DOMAIN fr_asgLq.m = {}
       /\ DOMAIN df_asgLq.m = {}
       /\ DOMAIN c_asiq.m = {}
       /\ DOMAIN vfr_asgLq.m = {}
       /\ DOMAIN vdf_asgLq.m = {}

\* C3: with an empty D_asp each of the three entry points returns its empty
\* result (({}, {}), ({}, {}, {}), {}) and leaves every stored per-atom
\* attribute of the kernel as it was (not created, not cleared, not changed).
C3_EmptyIsNoOp ==
    [][(last'.op \in {"features", "energy", "potential"} /\ last'.D = {})
       => /\ UNCHANGED KernelAttrs
          /\ last'.out = "returned"
          /\ last'.ret = (IF last'.op = "features" THEN <<{}, {}>>
                          ELSE IF last'.op = "energy" THEN <<{}, {}, {}>>
                          ELSE <<{}>>)]_vars

\* An energy call with an empty D_asp on a kernel that holds the entries of an
\* earlier energy call.
C3_Witness ==
    /\ last.op = "energy"
    /\ last.D = {}
    /\ last.out = "returned"
    /\ DOMAIN vfr_asgLq.m # {}

\* C4: after calculate_paw_cider_features has returned for a non-empty D_asp,
\* fr_asgLq, df_asgLq, c_asiq and the two returned mappings have exactly the
\* keys of D_asp; after calculate_paw_cider_energy has returned for a non-empty
\* D_asp the same holds of vfr_asgLq, vdf_asgLq and the three returned mappings.
C4_KeysAreThoseOfDasp ==
    /\ (last.op = "features" /\ last.out = "returned" /\ last.D # {})
       => /\ fr_asgLq.set /\ DOMAIN fr_asgLq.m = last.D
          /\ df_asgLq.set /\ DOMAIN df_asgLq.m = last.D
          /\ c_asiq.set /\ DOMAIN c_asiq.m = last.D
          /\ last.ret = <<last.D, last.D>>
    /\ (last.op = "energy" /\ last.out = "returned" /\ last.D # {})
       => /\ vfr_asgLq.set /\ DOMAIN vfr_asgLq.m = last.D
          /\ vdf_asgLq.set /\ DOMAIN vdf_asgLq.m = last.D
          /\ last.ret = <<last.D, last.D, last.D>>

\* Features returned for fewer atoms than an earlier features call had (the
\* entry that the energy call in between wrote for the other atom is still
\* there, the features entry of that atom is gone).
C4_Witness ==
    /\ last.op = "features"
    /\ last.out = "returned"
    /\ last.D # {}
    /\ \E a \in Atoms : a \in DOMAIN vfr_asgLq.m /\ a \notin last.D

\* C5: the dispatcher runs exactly the routine its optional inputs select:
\* features when D_asiq and vc_asiq are None, energy when D_asiq is given
\* together with df_asgLq, no routine (an assertion fails and the kernel is left
\* as it was) when D_asiq is given without df_asgLq, and potential when D_asiq
\* is None and vc_asiq is given.
C5_DispatchByInputs ==
    [][last'.via = "dispatch"
       => LET g == last'.args
          IN /\ (~g.D_asiq /\ ~g.vc_asiq) => last'.op = "features"
             /\ (g.D_asiq /\ g.df_asgLq) => last'.op = "energy"
             /\ (g.D_asiq /\ ~g.df_asgLq)
                => /\ last'.op = "none"
                   /\ last'.out = "AssertionError"
                   /\ UNCHANGED KernelAttrs
             /\ (~g.D_asiq /\ g.vc_asiq) => last'.op = "potential"]_vars

\* Energy was selected although vc_asiq was given as well, and it returned.
C5_Witness ==
    /\ last.via = "dispatch"
    /\ last.args = [D_asiq |-> TRUE, df_asgLq |-> TRUE, vc_asiq |-> TRUE]
    /\ last.op = "energy"
    /\ last.out = "returned"
    /\ last.D # {}

\* Number of shells (radial functions) of a table in the channel l.
NShells(t, l) == Cardinality({j \in DOMAIN t.llist_j : t.llist_j[j] = l})

Channels == 0..4

Built(a) == zsetups[a].out = "returned"

\* C6: for every setup initialised by initialize_more_things, with
\* encut = 20*Z^2: if encut is covered by the largest global exponent, Nalpha is
\* the size of the global exponent set and the top exponent is its maximum;
\* otherwise Nalpha is the smallest ladder length whose top exponent
\* encut0 = amin*lambd^(Nalpha-1) covers encut (encut0 >= encut and
\* encut0/lambd < encut).  No setup is left uninitialised by an assertion.
C6_NalphaCoversEncut ==
    \A a \in Atoms :
        /\ zsetups[a].out # "AssertionError"
        /\ Built(a)
           => LET zs == zsetups[a]
                  encut == 20 * zs.Z * zs.Z
                  amin == SetMin(plan.bas_exp_fit)
                  amax == SetMax(plan.bas_exp_fit)
              IN IF encut <= amax
                 THEN zs.Nalpha = Cardinality(plan.bas_exp_fit) /\ zs.encut0 = amax
                 ELSE /\ zs.Nalpha >= 2
                      /\ zs.encut0 = amin * Pow(plan.lambd, zs.Nalpha - 1)
                      /\ zs.encut0 >= encut
                      /\ zs.encut0 < encut * plan.lambd
                      /\ \A n \in 1..(zs.Nalpha - 1) :
                            amin * Pow(plan.lambd, n - 1) < encut

\* A setup whose encut is beyond the global exponents and is reached exactly by
\* the ladder (20 = 5 * 2^2), and one whose encut is covered.
C6_Witness ==
    /\ plan = [bas_exp_fit |-> {5, 10}, lambd |-> 2]
    /\ Built(1) /\ zsetups[1].Z = 1 /\ zsetups[1].Nalpha = 3 /\ zsetups[1].encut0 = 20
    /\ Built(2) /\ zsetups[2].Z = 0 /\ zsetups[2].Nalpha = 2 /\ zsetups[2].encut0 = 10

\* The ranges of Z the claim names.
AugRange(Z) == IF Z > 1000 THEN 3 ELSE IF Z > 18 THEN 2 ELSE IF Z > 0 THEN 1 ELSE 0

\* The ranges of Z of PSmoothSetup.from_setup.
SmoothRange(Z) == IF Z > 100 THEN 2 ELSE IF Z > 0 THEN 1 ELSE 0

MonotoneShells(a, b) ==
    zsetups[a].Z <= zsetups[b].Z
    => \A l \in Channels :
          /\ NShells(zsetups[a].pa_setup, l) <= NShells(zsetups[b].pa_setup, l)
          /\ NShells(zsetups[a].ps_setup, l) <= NShells(zsetups[b].ps_setup, l)

\* C7 (as claimed): PAugSetup.from_setup and PSmoothSetup.from_setup both choose
\* their shell table by the ranges Z>1000, Z>18, Z>0, else (two setups have the
\* same table exactly when their Z are in the same range), and a larger Z never
\* has fewer shells in any channel l.
C7_SameRangesBothSetups ==
    \A a, b \in Atoms :
        (Built(a) /\ Built(b))
        => /\ (zsetups[a].pa_setup = zsetups[b].pa_setup)
              <=> (AugRange(zsetups[a].Z) = AugRange(zsetups[b].Z))
           /\ (zsetups[a].ps_setup = zsetups[b].ps_setup)
              <=> (AugRange(zsetups[a].Z) = AugRange(zsetups[b].Z))
           /\ MonotoneShells(a, b)

\* C7 (amended): PAugSetup.from_setup chooses its table by the ranges Z>1000,
\* Z>18, Z>0, else, PSmoothSetup.from_setup by the ranges Z>100, Z>0, else, and
\* in each of them a larger Z never has fewer shells in any channel l.
C7_RangesPerSetup ==
    \A a, b \in Atoms :
        (Built(a) /\ Built(b))
        => /\ (zsetups[a].pa_setup = zsetups[b].pa_setup)
              <=> (AugRange(zsetups[a].Z) = AugRange(zsetups[b].Z))
           /\ (zsetups[a].ps_setup = zsetups[b].ps_setup)
              <=> (SmoothRange(zsetups[a].Z) = SmoothRange(zsetups[b].Z))
           /\ MonotoneShells(a, b)

\* Two setups in different ranges of PAugSetup and in the same range of
\* PSmoothSetup, and the larger one has more shells in PAugSetup.
C7_Witness ==
    /\ Built(1) /\ zsetups[1].Z = 18
    /\ Built(2) /\ zsetups[2].Z = 19
    /\ zsetups[1].ps_setup = zsetups[2].ps_setup
    /\ NShells(zsetups[1].pa_setup, 0) < NShells(zsetups[2].pa_setup, 0)

\* C8 (as claimed): no projector setup is produced for a negative Z.
C8_NegativeZRejected ==
    \A a \in Atoms :
        zsetups[a].Z < 0
        => /\ zsetups[a].ps_setup = NoTable
           /\ zsetups[a].pa_setup = NoTable

\* The L whose l exceeds the lmax of the shell table of the setup.
BeyondLmax == {L \in Ls : lOf(L) > LmaxOf(ProjSetup)}

ZeroAtL(field, L) == \A k \in DOMAIN field : k[3] = L => field[k] = 0

DfZeroAtL(df, L) == \A k \in DOMAIN df : k[2] = L => df[k] = 0

\* C9: for every L whose l exceeds the lmax of the shell table and for any
\* input field, get_c_and_df returns df[s, L] = 0 and no projector (hence no
\* coefficient) belongs to L, and get_f_realspace_contribs,
\* get_df_realspace_contribs and get_df_only return exactly zero at that L.
C9_ChannelSkipping ==
    \A L \in BeyondLmax :
        /\ "get_c_and_df" \in pout.done
           => /\ DfZeroAtL(pout.rx.df, L)
              /\ DfZeroAtL(pout.ry.df, L)
              /\ DfZeroAtL(pout.rxy.df, L)
              /\ ProjectorsOf(ProjSetup, L) = {}
        /\ "get_f_realspace_contribs" \in pout.done => ZeroAtL(pout.f, L)
        /\ "get_df_realspace_contribs" \in pout.done => ZeroAtL(pout.dfreal, L)
        /\ "get_df_only" \in pout.done => DfZeroAtL(pout.dfonly, L)

\* All four routines have run on a field that is non-zero both at an L beyond
\* lmax and at an L within it, and each returned something non-zero.
C9_Witness ==
    LET z == Combine(pin.a, pin.x, pin.b, pin.y)
    IN /\ pout.done = {"get_c_and_df", "get_f_realspace_contribs",
                       "get_df_realspace_contribs", "get_df_only"}
       /\ \E k \in FieldIdx : k[3] \in BeyondLmax /\ z[k] # 0
       /\ \E k \in FieldIdx : k[3] \notin BeyondLmax /\ z[k] # 0
       /\ \E k \in DfIdx : pout.rxy.df[k] # 0
       /\ \E k \in DOMAIN pout.rxy.c : pout.rxy.c[k] # 0
       /\ \E k \in FieldIdx : pout.f[k] # 0
       /\ \E k \in FieldIdx : pout.dfreal[k] # 0
       /\ \E k \in DfIdx : pout.dfonly[k] # 0

\* C10: get_c_and_df is linear: what it returns for a*x + b*y is a times what
\* it returns for x plus b times what it returns for y, in c and in df; the
\* zero field gives zero c and df.
C10_SolveIsLinear ==
    "get_c_and_df" \in pout.done
    => /\ \A k \in DOMAIN pout.rxy.c :
            pout.rxy.c[k] = pin.a * pout.rx.c[k] + pin.b * pout.ry.c[k]
       /\ \A k \in DOMAIN pout.rxy.df :
            pout.rxy.df[k] = pin.a * pout.rx.df[k] + pin.b * pout.ry.df[k]
       /\ (pin.x = ZeroField => pout.rx = ZeroCdf)

\* get_c_and_df has run on two different non-zero fields x and y, with
\* non-zero c and df for both and for the combination.
C10_Witness ==
    /\ "get_c_and_df" \in pout.done
    /\ pin.x # pin.y
    /\ \E k \in DOMAIN pout.rx.c : pout.rx.c[k] # 0
    /\ \E k \in DOMAIN pout.ry.c : pout.ry.c[k] # 0
    /\ \E k \in DfIdx : pout.rx.df[k] # 0
    /\ \E k \in DfIdx : pout.ry.df[k] # 0
    /\ \E k \in DOMAIN pout.rxy.c : pout.rxy.c[k] # 0

\* C11: get_v_from_c_and_df is the transpose of get_c_and_df: with (c, df) =
\* get_c_and_df(y) and vy = get_v_from_c_and_df(vc, vdf), sum(vc*c) +
\* sum(vdf*df) equals the sum over k of dvk[k]*vy[..k]*y[..k].
C11_AdjointIsTranspose ==
    adj.done
    => SumF([k \in CIdx |-> adj.vc[k] * adj.r.c[k]])
       + SumF([k \in DfIdx |-> adj.vdf[k] * adj.r.df[k]])
       = SumF([k \in FieldIdx |-> get_dvk(k[4]) * adj.vy[k] * adj.y[k]])

\* Both routines have run and the two sides of the identity are non-zero.
C11_Witness ==
    /\ adj.done
    /\ \E k \in CIdx : adj.vc[k] # 0
    /\ \E k \in DfIdx : adj.vdf[k] # 0
    /\ SumF([k \in FieldIdx |-> get_dvk(k[4]) * adj.vy[k] * adj.y[k]]) # 0

\* C13: when initialize_more_things builds a setup whose P_l is not positive
\* definite, the call raises (LinAlgError) instead of returning; and no
\* features or potential call returns for an atom whose factorisation failed,
\* nor is anything stored for such an atom: its setup never gets a ps_setup.
C13_CholeskyFailureIsFatal ==
    [][/\ (last'.op = "initialize_more_things"
           /\ \E a \in Atoms : "cider_contribs" \notin setups[a] /\ cho_fails[a] = "ps_setup")
          => last'.out = "LinAlgError"
       /\ (last'.op \in {"features", "potential"} /\ last'.out = "returned")
          => \A a \in last'.D : cho_fails[a] # "ps_setup"
       /\ \A a \in Atoms :
            cho_fails[a] = "ps_setup"
            => /\ "ps_setup" \notin setups'[a]
               /\ a \notin DOMAIN df_asgLq'.m
               /\ a \notin DOMAIN c_asiq'.m]_vars

\* initialize_more_things ran on a setup whose factorisation fails, and a later
\* features call for that atom raised on the missing ps_setup.
C13_Witness ==
    /\ last.op = "features"
    /\ last.out = "AttributeError"
    /\ \E a \in last.D : cho_fails[a] = "ps_setup" /\ "cider_contribs" \in setups[a]

\* C14 (as claimed): when D_asiq[a] has a number of feature columns different
\* from the Nalpha_sm of the features call, or the atom's spin count differs
\* from that of the first atom, or vc_asiq[a] does not have the shape
\* (S, ni, Nalpha_sm) of the coefficients, the call does not return.
C14_ShapeMismatchIsFatal ==
    (/\ shp.done
     /\ \/ shp.in.S # shp.in.n0
        \/ (shp.op = "energy" /\ shp.in.xq # shp.in.Nalpha_sm)
        \/ (shp.op = "potential"
            /\ <<shp.in.xs, shp.in.xi, shp.in.xq>> # <<shp.in.S, shp.in.ni, shp.in.Nalpha_sm>>))
    => shp.out # "returned"

C17_EnergyFieldByBranch ==
    /\ (rad.stage = "called" /\ rad.mode = "energy")
       => /\ rad.handed
          /\ \A i \in RadIdx :
               rad.f_srLq[i] - rad.ft_srLq[i] = IF rad.ae THEN rad.df_srLq[i] ELSE 0
    /\ (rad.stage \in {"constructed", "called", "AssertionError"})
       => (rad.stage = "AssertionError" <=> rad.mode \notin RadModes)

\* An energy-mode expansion was called on the pseudo branch with a
\* difference field that is not zero.
C17_Witness ==
    /\ rad.stage = "called"
    /\ rad.mode = "energy"
    /\ ~rad.ae
    /\ \E i \in RadIdx : rad.df_srLq[i] # 0

\* The projectors of a pa_setup that sit at the angular index L.
ProjectorsAt(pa, L) == {i \in 0 .. (Len(pa.lmlist_i) - 1) : pa.lmlist_i[i + 1] = L}

\* C18: the energy stage leaves ft = fr + sum over the projectors i at L of
\* (D[s,i,q] - <pfuncs[n_i] dv, fr[s,:,L,q]>) * ffuncs[j_i] for q below
\* Nalpha_sm, ft = fr for q from Nalpha_sm on and at every L without a
\* projector, and so ft = fr when D holds the projections of fr itself.
C18_FtReconstruction ==
    rec.done
    => /\ \A k \in RecIdx :
            rec.ft[k] =
              rec.fr[k]
              + IF k[4] < rec.Nalpha_sm
                THEN SumF([i \in ProjectorsAt(RecSetup, k[3]) |->
                             (rec.D[<<k[1], i, k[4]>>]
                              - SumF([g \in Gs |-> pfuncs_ng(nlist_i(RecSetup, i), g)
                                                   * get_dv(g)
                                                   * rec.fr[<<k[1], g, k[3], k[4]>>]]))
                             * ffuncs_jg(RecSetup.jlist_i[i + 1], k[2])])
                ELSE 0
       /\ \A k \in RecIdx :
            (k[4] >= rec.Nalpha_sm \/ ProjectorsAt(RecSetup, k[3]) = {})
            => rec.ft[k] = rec.fr[k]
       /\ rec.D = SelfProjections(RecSetup, rec.fr, rec.Nalpha_sm) => rec.ft = rec.fr

\* The reconstruction ran with projections that are not those of fr, changed
\* the field at L = 0, where two projectors meet, and left a column beyond
\* Nalpha_sm alone.
C18_Witness ==
    /\ rec.done
    /\ rec.Nalpha_sm < NQ
    /\ rec.D # SelfProjections(RecSetup, rec.fr, rec.Nalpha_sm)
    /\ \E k \in RecIdx : k[3] = 0 /\ rec.ft[k] # rec.fr[k]
    /\ \E k \in RecIdx : k[4] >= rec.Nalpha_sm /\ rec.fr[k] # 0

\* The functional is semilocal and the nonlocal kernel is not forced.
TakenAsSemilocal == fn.mlfunc.is_empty /\ ~fn.outer.force_nonlocal

\* The class the claim names for a level, use_paw and fast.
ClassTable(level, use_paw, fast) ==
    (IF fast THEN "fast_paw." ELSE "") \o "Cider" \o level
    \o (IF use_paw THEN "PASDW" ELSE "")

\* C19: for a nonlocal or force-nonlocal functional the class returned is
\* the one the table gives for (level, use_paw, fast) and nothing else; the
\* PAW classes are built with pasdw_ovlp_fit and pasdw_store_funcs, the
\* others without them, and encut is qmax.
C19_ClassByLevelPawFast ==
    (fn.done /\ ~TakenAsSemilocal)
    => \A n \in DOMAIN fn.calls :
         LET c == fn.calls[n]
         IN /\ c.xc.cls = ClassTable(fn.mlfunc.level, c.args.use_paw, c.args.fast)
            /\ c.xc.kwargs.encut = c.args.qmax
            /\ c.args.use_paw
               => /\ DOMAIN c.xc.kwargs
                       = {"Nalpha", "lambd", "encut", "pasdw_ovlp_fit", "pasdw_store_funcs"}
                  /\ c.xc.kwargs.pasdw_ovlp_fit = c.args.pasdw_ovlp_fit
                  /\ c.xc.kwargs.pasdw_store_funcs = c.args.pasdw_store_funcs
            /\ ~c.args.use_paw
               => DOMAIN c.xc.kwargs = {"Nalpha", "lambd", "encut"}

\* A forced-nonlocal GGA functional without nonlocal features was built twice:
\* once fast with PAW, once neither, with different qmax.
C19_Witness ==
    /\ fn.done
    /\ Len(fn.calls) = 2
    /\ fn.mlfunc.level = "GGA" /\ fn.mlfunc.is_empty /\ fn.outer.force_nonlocal
    /\ fn.calls[1].args.use_paw /\ fn.calls[1].args.fast
    /\ ~fn.calls[2].args.use_paw /\ ~fn.calls[2].args.fast
    /\ fn.calls[1].args.qmax # fn.calls[2].args.qmax
    /\ fn.calls[1].xc.cls = "fast_paw.CiderGGAPASDW"
    /\ fn.calls[2].xc.cls = "CiderGGA"

\* C20: for a semilocal functional without _force_nonlocal, two calls that
\* differ only in use_paw, fast, Nalpha, qmax, lambd, pasdw_ovlp_fit or
\* pasdw_store_funcs return the same semilocal class (SLCiderMGGA for MGGA,
\* SLCiderGGA for GGA) built with the same arguments.
C20_SemilocalIgnoresSettings ==
    (fn.done /\ TakenAsSemilocal)
    => /\ \A n \in DOMAIN fn.calls :
            fn.calls[n].xc.cls = "SLCider" \o fn.mlfunc.level
       /\ Len(fn.calls) = 2 => fn.calls[1].xc = fn.calls[2].xc

\* A semilocal MGGA functional was built twice with settings that differ in
\* every one of the seven.
C20_Witness ==
    /\ Len(fn.calls) = 2
    /\ TakenAsSemilocal
    /\ fn.mlfunc.level = "MGGA"
    /\ \A x \in DOMAIN fn.calls[1].args : fn.calls[1].args[x] # fn.calls[2].args[x]

\* The four nonlocal types, which alone have a fast_paw variant.
NonlocalTypes == {"CiderGGAPASDW", "CiderMGGAPASDW", "CiderGGA", "CiderMGGA"}

\* _cider_fast is in the dictionary and true.
AskedFast(d) == "_cider_fast" \in DOMAIN d /\ d["_cider_fast"]

\* C21: for each of the eight type names cider_functional_from_dict builds
\* the class of that name, the fast_paw one exactly for a nonlocal type with
\* _cider_fast true, a Diff class over LibXC(name) without an ML functional;
\* for every other name it raises ValueError and builds nothing.
C21_FromDictByTypeName ==
    dct.done
    => LET t == dct.d["_cider_type"]
       IN /\ t \in KnownTypes
             => /\ dct.r.out = "returned"
                /\ dct.r.xc.cls = IF t \in NonlocalTypes /\ AskedFast(dct.d)
                                  THEN "fast_paw." \o t ELSE t
                /\ t \in {"DiffGGA", "DiffMGGA"}
                   => dct.r.xc.kernel = [cls |-> "LibXC", name |-> dct.d["name"]]
                /\ t \notin {"DiffGGA", "DiffMGGA"}
                   => dct.r.xc.kernel.mlfunc = dct.d["mlfunc"]
          /\ t \notin KnownTypes
             => /\ dct.r.out = "ValueError"
                /\ dct.r.xc = NoFunctional

\* A semilocal type was read from a dictionary that asks for the fast
\* variant, and the plain class was built.
C21_Witness ==
    /\ dct.done
    /\ dct.d["_cider_type"] = "SLCiderMGGA"
    /\ AskedFast(dct.d)
    /\ dct.r.xc.cls = "SLCiderMGGA"

\* C22: when xc is a dictionary with the key _cider_type, a construction
\* without mlfunc_data raises ValueError and the base constructor is not
\* called; with mlfunc_data the object keeps it and the base constructor
\* gets the keyword arguments without it.
C22_MlfuncDataRequired ==
    (gpw.done /\ IsCiderDict(gpw.kwargs))
    => IF "mlfunc_data" \in DOMAIN gpw.kwargs
       THEN /\ gpw.r.out = "constructed"
            /\ gpw.r.base
            /\ gpw.r.mlfunc_data = gpw.kwargs["mlfunc_data"]
            /\ "mlfunc_data" \notin DOMAIN gpw.r.base_args.kwargs
            /\ \A k \in (DOMAIN gpw.kwargs) \ {"mlfunc_data"} :
                 /\ k \in DOMAIN gpw.r.base_args.kwargs
                 /\ gpw.r.base_args.kwargs[k] = gpw.kwargs[k]
       ELSE /\ gpw.r.out = "ValueError"
            /\ ~gpw.r.base

\* A CiderGPAW was constructed from a CIDER dictionary with mlfunc_data and
\* further keyword arguments.
C22_Witness ==
    /\ gpw.done
    /\ IsCiderDict(gpw.kwargs)
    /\ {"mlfunc_data", "mode"} \subseteq DOMAIN gpw.kwargs
    /\ gpw.r.base

\* The inner product of two fields over (s, g, L, q), summed L by L.
InnerRec(x, y) ==
    SumF([L \in RecLs |->
            SumF([t \in Spins \X Gs \X Qs |->
                    x[<<t[1], t[2], L, t[3]>>] * y[<<t[1], t[2], L, t[3]>>]])])

\* The adjoint field of a call before the back-projection: vf - vft.
AdjointField(c) == [k \in RecIdx |-> c.vf[k] - c.vft[k]]

\* C23: every dvD[s,i,q] is the projection of vf - vft at L_i onto
\* ffuncs_jg[j_i], taken on the field as it was before any subtraction; the
\* stored vfr is vf - vft minus the sum over the projectors at L of
\* dvD_i * pfuncs_ng[n_i] * dv_g on the first Nalpha_sm columns and vf - vft
\* elsewhere; the stored vdf is vf; and dvD and vfr are the transpose of the
\* forward reconstruction: <v, ft(D, fr)> = <dvD, D> + <vfr, fr> for v = vf - vft.
C23_BackProjectionIsTranspose ==
    \A n \in DOMAIN en.calls :
      LET c == en.calls[n]
          v == AdjointField(c)
      IN /\ \A k \in DIdx(RecSetup, en.Nalpha_sm) :
              c.ret.dvD[k] =
                SumF([g \in Gs |-> v[<<k[1], g, RecSetup.lmlist_i[k[2] + 1], k[3]>>]
                                   * ffuncs_jg(RecSetup.jlist_i[k[2] + 1], g)])
         /\ \A k \in RecIdx :
              c.vfr[k] =
                v[k] - IF k[4] < en.Nalpha_sm
                       THEN SumF([i \in ProjectorsAt(RecSetup, k[3]) |->
                                    c.ret.dvD[<<k[1], i, k[4]>>]
                                    * pfuncs_ng(nlist_i(RecSetup, i), k[2]) * get_dv(k[2])])
                       ELSE 0
         /\ c.vdf = c.vf
         /\ LET ft == energy_ft_sgLq(RecSetup, en.D0, en.st0.fr, en.Nalpha_sm)
            IN InnerRec(v, ft)
               = SumF([k \in DIdx(RecSetup, en.Nalpha_sm) |-> c.ret.dvD[k] * en.D0[k]])
                 + InnerRec(c.vfr, en.st0.fr)

\* The stage ran with an adjoint field that is not zero at L = 0, where two
\* projectors meet, and the back-projection changed the field there.
C23_Witness ==
    /\ Len(en.calls) >= 1
    /\ en.Nalpha_sm < NQ
    /\ \E k \in RecIdx : k[3] = 0 /\ en.calls[1].vfr[k] # AdjointField(en.calls[1])[k]
    /\ \E k \in DIdx(RecSetup, en.Nalpha_sm) : en.calls[1].ret.dvD[k] # 0

C24_KineticContraction ==
    [][/\ kin'.op = "set_D_sp"
          => /\ DOMAIN kin'.c.dH_sp = DOMAIN kin'.D_sp
             /\ \A p \in DOMAIN kin'.D_sp : kin'.c.dH_sp[p] = 0
       /\ (kin'.op \in RadModes /\ kin'.out = "returned")
          => /\ DOMAIN kin'.c.dH_sp = DOMAIN kin.c.dH_sp
             /\ \A p \in DOMAIN kin.c.dH_sp :
                  kin'.c.dH_sp[p] - kin.c.dH_sp[p] =
                    IF kin'.op \in {"energy", "potential"} /\ kin.c.is_mgga
                    THEN IF kin'.ae
                         THEN SumF([g \in Gs |-> kin'.dedtau_sg[g] * w_g(g) * tau_pg(p, g)])
                         ELSE 0 - SumF([g \in Gs |-> kin'.dedtau_sg[g] * w_g(g)
                                                      * taut_pg(p, g)])
                    ELSE 0]_vars

\* After set_D_sp, a meta-GGA's potential calculator ran on the pseudo
\* branch and left a _dH_sp that is not zero.
C24_Witness ==
    /\ kin.done
    /\ kin.c.is_mgga
    /\ kin.op = "potential"
    /\ kin.out = "returned"
    /\ ~kin.ae
    /\ \E p \in DOMAIN kin.c.dH_sp : kin.c.dH_sp[p] # 0

\* C25 (as claimed): in every reachable state a setup that has the attribute
\* cider_contribs, and is therefore skipped by initialize_more_things, also
\* has ps_setup and pa_setup.
C25_SkippedSetupsAreComplete ==
    \A a \in Atoms :
        "cider_contribs" \in setups[a] => {"ps_setup", "pa_setup"} \subseteq setups[a]

C28_CutoffOrderMirrored ==
    /\ cut.stage \in {"features", "potential"}
       => \A i \in RadIdx :
            /\ cut.f.dx[i] = cut.x[i] - cut.xt[i]
            /\ cut.f.xt[i] = cut.fcut[i] * cut.xt[i]
    /\ cut.stage = "potential"
       => /\ \A i \in RadIdx :
               /\ cut.theta_ae[i] = cut.vdx[i]
               /\ cut.theta_ps[i] = cut.vdx[i] - cut.fcut[i] * cut.vxt[i]
          /\ SumF([i \in RadIdx |-> cut.vdx[i] * cut.f.dx[i] + cut.vxt[i] * cut.f.xt[i]])
             = SumF([i \in RadIdx |-> cut.theta_ae[i] * cut.x[i]
                                      - cut.theta_ps[i] * cut.xt[i]])

\* Both stages ran with a cutoff that is neither 0 nor 1 at some point.
C28_Witness ==
    /\ cut.stage = "potential"
    /\ \E i \in RadIdx : cut.fcut[i] = 3
    /\ \E i \in RadIdx : cut.fcut[i] = 0
    /\ cut.theta_ps # cut.theta_ae

====
